---- MODULE Spec2Model ----
(***************************************************************************)
(* Mindscape canvas: the viewport transform, the pointer gesture resolver, *)
(* fit-to-screen, the connector anchors, the node drag controller and the  *)
(* node layout of the CanvasManager, as a state machine whose actions are  *)
(* the event handlers of the source.                                       *)
(*                                                                         *)
(* Numbers.  JavaScript numbers are modelled as exact rationals <<n, d>>   *)
(* (d > 0, lowest terms), so that every product, quotient and clamp of the *)
(* source is computed, not approximated; equality of two numbers is        *)
(* equality of the pairs.  Floating-point rounding is not modelled.        *)
(***************************************************************************)
EXTENDS Integers, Sequences, FiniteSets, TLC

(***************************************************************************)
(* Bounds of the model                                                     *)
(***************************************************************************)
\* the number of events handled in one behaviour
MaxSteps == 3

(***************************************************************************)
(* Number arithmetic                                                       *)
(***************************************************************************)
Abs(i) == IF i < 0 THEN -i ELSE i

RECURSIVE GCD(_, _)
GCD(a, b) == IF b = 0 THEN a ELSE GCD(b, a % b)

\* n/d in lowest terms with a positive denominator (d # 0)
Frac(n, d) ==
    LET g == GCD(Abs(n), Abs(d))
        s == IF d < 0 THEN -1 ELSE 1
    IN  <<(s * n) \div g, (s * d) \div g>>

R(i) == <<i, 1>>

\* The operands are reduced against each other before they are multiplied,
\* which keeps the intermediate products small.
Add(a, b) ==
    LET g == GCD(a[2], b[2])
    IN  Frac(a[1] * (b[2] \div g) + b[1] * (a[2] \div g), (a[2] \div g) * b[2])

Neg(a) == <<-a[1], a[2]>>

Sub(a, b) == Add(a, Neg(b))

Mul(a, b) ==
    LET p == Frac(a[1], b[2])
        q == Frac(b[1], a[2])
    IN  <<p[1] * q[1], p[2] * q[2]>>

\* a / b; the divisor is never zero in the behaviours modelled
Div(a, b) == Mul(a, Frac(b[2], b[1]))

Lt(a, b) ==
    LET g == GCD(a[2], b[2])
    IN  a[1] * (b[2] \div g) < b[1] * (a[2] \div g)

Le(a, b) == ~Lt(b, a)

\* Math.min and Math.max
Min2(a, b) == IF Lt(b, a) THEN b ELSE a
Max2(a, b) == IF Lt(a, b) THEN b ELSE a

RECURSIVE SqrtSearch(_, _, _)
SqrtSearch(n, lo, hi) ==
    IF lo >= hi THEN lo
    ELSE LET mid == (lo + hi + 1) \div 2
         IN  IF mid * mid <= n THEN SqrtSearch(n, mid, hi)
                               ELSE SqrtSearch(n, lo, mid - 1)

\* the integer square root; exact on the perfect squares
ISqrt(n) == SqrtSearch(n, 0, IF n < 46340 THEN n ELSE 46340)

\* Math.hypot(dx, dy).  The pointer positions of the model (Positions) are
\* chosen so that every distance between two of them is rational.
Hypot(dx, dy) ==
    LET sq == Add(Mul(dx, dx), Mul(dy, dy))
    IN  Frac(ISqrt(sq[1]), ISqrt(sq[2]))

(***************************************************************************)
(* Program constants                                                       *)
(***************************************************************************)
NODE_WIDTH == 384
PADDING == 100
\* the fallback height of a node whose element is not measured
FallbackHeight == 200
\* the vertical offset of a child below its parent
yOffset == 300

MinScale == Frac(1, 10)
MaxScale == R(3)
InitialScale == Frac(8, 10)
ZoomInFactor == Frac(12, 10)
ZoomOutFactor == Frac(8, 10)
WheelFactor == Frac(1, 1000)
FitMaxScale == Frac(15, 10)

(***************************************************************************)
(* Inputs                                                                  *)
(***************************************************************************)
PointerIds == {1, 2, 3}

\* Screen positions of pointer events, on one line of direction (3, 4): the
\* pairwise distances are 100, 700 and 800, so Math.hypot is exact on them;
\* the ratio 800/100 takes a pinch from the initial scale past the upper
\* clamp and 100/800 past the lower one.
Positions == {<<0, 0>>, <<60, 80>>, <<480, 640>>}

\* deltaY of the wheel events: to scale 1.0, past the upper clamp (3.0) and
\* past the lower clamp (0.1) from the initial scale
WheelDeltas == {-200, -3000, 900}

\* the window (and canvas) sizes: a desktop window, and a phone in landscape
\* with the on-screen keyboard open, lower than twice the fit padding
DesktopView == <<1000, 800>>
LowView == <<640, 150>>
Viewports == {DesktopView, LowView}

Pt(p) == [x |-> R(p[1]), y |-> R(p[2])]

VARIABLES
    viewport,    \* canvasRef.current.clientWidth/clientHeight = window.inner*
    transform,   \* Canvas state: {x, y, scale}
    pointers,    \* Canvas pointers ref: Map pointerId -> {x, y}, in insertion order
    nodes,       \* useCanvasStore nodes: the ordered node collection
    heights,     \* nodeElements ref: node id -> clientHeight of its element, or Unmeasured
    capture,     \* pointer capture: pointerId -> the canvas, a node id, or NoCapture
    drag,        \* dragState ref of each mounted Node component, by node id
    painted,     \* style.transform of each node element: the translate it shows
    isLoading,   \* useCanvasStore isLoading
    apiKeySelected, \* useCanvasStore apiKeySelected: "null", "true" or "false"
    procs,       \* pending asynchronous continuations (awaits and callbacks)
    now,         \* Date.now()
    aistudio,    \* whether window.aistudio exists
    synapses,    \* the connectors drawn by the last render of the connector canvas
    ev,          \* the event handled last and the branch its handler took
    steps        \* number of events handled

vars ==
    <<viewport, transform, pointers, nodes, heights, capture, drag, painted,
      isLoading, apiKeySelected, procs, now, aistudio, synapses, ev, steps>>

canvasVars == <<transform, pointers>>
storeVars == <<nodes, heights>>
dragVars == <<drag, painted>>
flowVars == <<isLoading, apiKeySelected, procs, now, aistudio>>
renderVars == <<synapses>>

(***************************************************************************)
(* The pointers Map (insertion ordered)                                    *)
(***************************************************************************)
MapHas(m, id) == \E i \in 1..Len(m) : m[i].id = id

MapIndex(m, id) == CHOOSE i \in 1..Len(m) : m[i].id = id

MapGet(m, id) == m[MapIndex(m, id)].pos

\* Map.prototype.set: an existing key keeps its place, a new key is appended
MapSet(m, id, pos) ==
    IF MapHas(m, id)
    THEN [m EXCEPT ![MapIndex(m, id)] = [id |-> id, pos |-> pos]]
    ELSE Append(m, [id |-> id, pos |-> pos])

\* a delete that empties the map
MapClear(m, id) == <<>>

\* Map.prototype.delete
MapDelete(m, id) == SelectSeq(m, LAMBDA e : e.id # id)

\* Array.from(map.values())
MapValues(m) == [i \in 1..Len(m) |-> m[i].pos]

(***************************************************************************)
(* Transform model                                                         *)
(***************************************************************************)
\* Math.min(Math.max(0.1, s), 3)
ClampScale(s) == Min2(Max2(MinScale, s), MaxScale)

\* a pan that overwrites the translation with the delta
PanOverwrite(prev, dx, dy) == [prev EXCEPT !.x = dx, !.y = dy]

\* the updater of the pan branch: {...prev, x: prev.x + dx, y: prev.y + dy}
Pan(prev, dx, dy) ==
    [prev EXCEPT !.x = Add(prev.x, dx), !.y = Add(prev.y, dy)]

\* the updater of the pinch branch
PinchUpdate(prev, newMidpoint, panDx, panDy, scaleFactor) ==
    LET newScale == ClampScale(Mul(prev.scale, scaleFactor))
        newX == Sub(newMidpoint.x,
                    Mul(Sub(newMidpoint.x, Add(prev.x, panDx)), scaleFactor))
        newY == Sub(newMidpoint.y,
                    Mul(Sub(newMidpoint.y, Add(prev.y, panDy)), scaleFactor))
    IN  [scale |-> newScale, x |-> newX, y |-> newY]

\* a wheel zoom that moves the translation by the unclamped target scale
WheelUnclampedRatio(prev, mouseX, mouseY, scaleAmount) ==
    LET target == Add(prev.scale, scaleAmount)
    IN  [scale |-> ClampScale(target),
         x |-> Sub(mouseX, Mul(Sub(mouseX, prev.x), Div(target, prev.scale))),
         y |-> Sub(mouseY, Mul(Sub(mouseY, prev.y), Div(target, prev.scale)))]

\* the updater of handleWheel
WheelUpdate(prev, mouseX, mouseY, scaleAmount) ==
    LET newScale == ClampScale(Add(prev.scale, scaleAmount))
        newX == Sub(mouseX, Mul(Sub(mouseX, prev.x), Div(newScale, prev.scale)))
        newY == Sub(mouseY, Mul(Sub(mouseY, prev.y), Div(newScale, prev.scale)))
    IN  [scale |-> newScale, x |-> newX, y |-> newY]

\* a zoom-in without the upper limit
ZoomInUnclamped(prev) == [prev EXCEPT !.scale = Mul(prev.scale, ZoomInFactor)]

ZoomInUpdate(prev) ==
    [prev EXCEPT !.scale = Min2(Mul(prev.scale, ZoomInFactor), MaxScale)]

\* a zoom-out that keeps the content under the screen origin in place
ZoomOutAnchoredAtOrigin(prev) ==
    LET newScale == Max2(Mul(prev.scale, ZoomOutFactor), MinScale)
    IN  [scale |-> newScale,
         x |-> Mul(prev.x, Div(newScale, prev.scale)),
         y |-> Mul(prev.y, Div(newScale, prev.scale))]

ZoomOutUpdate(prev) ==
    [prev EXCEPT !.scale = Max2(Mul(prev.scale, ZoomOutFactor), MinScale)]

Midpoint(a, b) ==
    [x |-> Div(Add(a.x, b.x), R(2)), y |-> Div(Add(a.y, b.y), R(2))]

Distance(a, b) == Hypot(Sub(a.x, b.x), Sub(a.y, b.y))

(***************************************************************************)
(* Initial state                                                           *)
(***************************************************************************)
\* an absent NodeAction (action, triggeredByAction undefined)
NoAction == "NONE"

\* the arguments of a runAIProcess call: promptNode.content and action
Request(content, action) == [content |-> content, action |-> action]
NoRequest == Request("none", NoAction)

NoPos == Pt(<<0, 0>>)

\* the last event handled; req is NoRequest unless it ran runAIProcess
Event(type, id, pos, arg, branch) ==
    [type |-> type, id |-> id, pos |-> pos, arg |-> arg, branch |-> branch,
     req |-> NoRequest]

\* an event whose handler ran runAIProcess(promptNode, file, action), or
\* resumed it after openSelectKey
FlowEvent(type, promptNode, action, branch) ==
    [Event(type, 0, NoPos, promptNode.id, branch)
        EXCEPT !.req = Request(promptNode.content, action)]

\* node ids are pairs <<prefix, number>>: 'initial', `${Date.now()}`,
\* `loading-${Date.now()}`, `error-${Date.now()}`
InitialId == <<"initial", 0>>
NoParent == <<"none", 0>>
\* an entry of nodeElements: null, or an element with its clientHeight
Unmeasured == <<>>
Measured(h) == <<h>>

\* the rendered height of the welcome node
RenderedHeights == {200}

\* NodeData; content keeps what the code tests of it, whether it mentions
\* a video ("video") or not ("text"); file is whether a file is attached
NodeRec(id, type, x, y, parentId) ==
    [id |-> id, type |-> type, x |-> x, y |-> y, parentId |-> parentId,
     content |-> "text", file |-> FALSE, triggeredByAction |-> NoAction]

NodeIds(ns) == {ns[i].id : i \in 1..Len(ns)}

\* style={{ transform: `translate(${node.x}px, ${node.y}px)` }} of every
\* rendered Node
StyleOf(ns) ==
    [id \in NodeIds(ns) |->
        LET i == CHOOSE i \in 1..Len(ns) : ns[i].id = id /\ \A j \in 1..(i - 1) : ns[j].id # id
        IN  [x |-> ns[i].x, y |-> ns[i].y]]

\* the element styles after React rendered the collection new over old:
\* a style is written when the element mounts or its rendered value changed
Repaint(pt, old, new) ==
    [id \in NodeIds(new) |->
        IF id \notin DOMAIN pt \/ id \notin NodeIds(old) THEN StyleOf(new)[id]
        ELSE IF StyleOf(new)[id] # StyleOf(old)[id] THEN StyleOf(new)[id]
        ELSE pt[id]]

\* what setPointerCapture records for a pointer
NoCapture == <<"none", 0>>
CanvasCapture == <<"canvas", 0>>

\* the initial dragState of a Node component
IdleDrag ==
    [isDragging |-> FALSE, startX |-> R(0), startY |-> R(0),
     nodeStartX |-> R(0), nodeStartY |-> R(0)]

\* the initialNode of the store
initialNode(win) ==
    NodeRec(InitialId, "SYSTEM_MESSAGE",
            Sub(Div(R(win.w), R(2)), R(192)), Div(R(win.h), R(3)), NoParent)

\* a pending continuation: kind is "check" (hasSelectedApiKey), "read"
\* (FileReader), "fetch" (handleNodeAction), "key" (openSelectKey) or "ai"
\* (processRequest)
Proc(kind, node, file, action, loadingNodeId, x, y) ==
    [kind |-> kind, node |-> node, file |-> file, action |-> action,
     loadingNodeId |-> loadingNodeId, x |-> x, y |-> y]
NoNode == NodeRec(NoParent, "NONE", R(0), R(0), NoParent)

\* CanvasManager.init -> checkApiKey, up to its await
InitFlow ==
    /\ aistudio \in BOOLEAN
    /\ isLoading = FALSE
    /\ apiKeySelected = IF aistudio THEN "null" ELSE "true"
    /\ procs = IF aistudio
               THEN <<Proc("check", NoNode, FALSE, NoAction, NoParent, R(0), R(0))>>
               ELSE <<>>
    /\ now = 1

Init ==
    /\ InitFlow
    /\ viewport \in {[w |-> v[1], h |-> v[2]] : v \in Viewports}
    /\ transform = [x |-> Div(R(viewport.w), R(4)),
                    y |-> Div(R(viewport.h), R(8)),
                    scale |-> InitialScale]
    /\ pointers = <<>>
    /\ nodes = <<initialNode(viewport)>>
    /\ heights \in [{InitialId} -> {Measured(h) : h \in RenderedHeights}]
    /\ capture = [p \in PointerIds |-> NoCapture]
    /\ drag = [id \in NodeIds(nodes) |-> IdleDrag]
    /\ painted = StyleOf(nodes)
    /\ synapses = <<>>
    /\ ev = Event("init", 0, NoPos, 0, "none")
    /\ steps = 0

Tick ==
    /\ steps < MaxSteps
    /\ steps' = steps + 1

(***************************************************************************)
(* Canvas pointer handlers                                                 *)
(***************************************************************************)
\* a guard that tests the new distance instead of the old one
GuardOnNewDistance(oldDist, newDist) == newDist = R(0)

\* if (oldDist === 0) return;
ZeroDistanceGuard(oldDist, newDist) == oldDist = R(0)

\* which branch handlePointerMove takes for the pointer set before (old) and
\* after (new) the update of the moved pointer
MoveBranch(old, new) ==
    IF Len(new) = 1 THEN "pan"
    ELSE IF Len(new) = 2 /\ Len(old) = 2
         THEN IF ZeroDistanceGuard(Distance(old[1].pos, old[2].pos),
                                   Distance(new[1].pos, new[2].pos))
              THEN "skip" ELSE "pinch"
         ELSE "ignored"

\* an oldPos read from the pointer set after the moved pointer was written
PanOldPosAfterWrite(oldPointers, newPointers, id) == MapGet(newPointers, id)

\* const oldPos = oldPointers.get(e.pointerId)!
PanOldPos(oldPointers, newPointers, id) == MapGet(oldPointers, id)

\* the transform after handlePointerMove of pointer id to position pos
MoveTransform(prev, oldPointers, id, pos) ==
    LET new == MapSet(oldPointers, id, pos)
        pArr == MapValues(new)
        oldPArr == MapValues(oldPointers)
        branch == MoveBranch(oldPointers, new)
    IN  IF branch = "pan"
        THEN LET oldPos == PanOldPos(oldPointers, new, id)
             IN  Pan(prev, Sub(pos.x, oldPos.x), Sub(pos.y, oldPos.y))
        ELSE IF branch = "pinch"
        THEN LET oldDist == Distance(oldPArr[1], oldPArr[2])
                 newDist == Distance(pArr[1], pArr[2])
                 oldMidpoint == Midpoint(oldPArr[1], oldPArr[2])
                 newMidpoint == Midpoint(pArr[1], pArr[2])
                 scaleFactor == Div(newDist, oldDist)
                 panDx == Sub(newMidpoint.x, oldMidpoint.x)
                 panDy == Sub(newMidpoint.y, oldMidpoint.y)
             IN  PinchUpdate(prev, newMidpoint, panDx, panDy, scaleFactor)
        ELSE prev

\* a canvas press handler without the target guard
CanvasDownTracksAll(ps, id, pos, onCanvas) == MapSet(ps, id, pos)

\* the pointer set after the canvas handlePointerDown received a press;
\* onCanvas is e.target === canvasRef.current
CanvasDownPointers(ps, id, pos, onCanvas) ==
    IF ~onCanvas THEN ps ELSE MapSet(ps, id, pos)

\* handlePointerDown on the canvas background (e.target === canvasRef.current)
handlePointerDown(id, pos) ==
    /\ Tick
    /\ ~MapHas(pointers, id)     \* a pointer that is down is not pressed again
    /\ capture[id] = NoCapture
    /\ pointers' = CanvasDownPointers(pointers, id, pos, TRUE)
    /\ capture' = [capture EXCEPT ![id] = CanvasCapture]
    /\ ev' = Event("down", id, pos, 0, "none")
    /\ UNCHANGED <<renderVars, viewport, transform, storeVars, dragVars, flowVars>>

\* handlePointerMove
handlePointerMove(id, pos) ==
    /\ Tick
    /\ capture[id] \in {NoCapture, CanvasCapture}
    /\ IF ~MapHas(pointers, id)
       THEN /\ ev' = Event("move", id, pos, 0, "untracked")
            /\ UNCHANGED <<pointers, transform>>
       ELSE /\ pointers' = MapSet(pointers, id, pos)
            /\ transform' = MoveTransform(transform, pointers, id, pos)
            /\ ev' = Event("move", id, pos, 0,
                           MoveBranch(pointers, MapSet(pointers, id, pos)))
    /\ UNCHANGED <<renderVars, viewport, storeVars, capture, dragVars, flowVars>>

\* handlePointerUp, also registered for pointercancel
handlePointerUp(id, type) ==
    /\ Tick
    /\ capture[id] \in {NoCapture, CanvasCapture}
    /\ pointers' = MapDelete(pointers, id)
    /\ capture' = [capture EXCEPT ![id] = NoCapture]
    /\ ev' = Event(type, id, NoPos, 0, "none")
    /\ UNCHANGED <<renderVars, viewport, transform, storeVars, dragVars, flowVars>>

\* handleWheel; the canvas fills the window, so rect.left = rect.top = 0
handleWheel(pos, deltaY) ==
    /\ Tick
    /\ LET scaleAmount == Mul(R(-deltaY), WheelFactor)
       IN  transform' = WheelUpdate(transform, pos.x, pos.y, scaleAmount)
    /\ ev' = Event("wheel", 0, pos, deltaY, "none")
    /\ UNCHANGED <<renderVars, viewport, pointers, storeVars, capture, dragVars, flowVars>>

handleZoomIn ==
    /\ Tick
    /\ transform' = ZoomInUpdate(transform)
    /\ ev' = Event("zoomIn", 0, NoPos, 0, "none")
    /\ UNCHANGED <<renderVars, viewport, pointers, storeVars, capture, dragVars, flowVars>>

handleZoomOut ==
    /\ Tick
    /\ transform' = ZoomOutUpdate(transform)
    /\ ev' = Event("zoomOut", 0, NoPos, 0, "none")
    /\ UNCHANGED <<renderVars, viewport, pointers, storeVars, capture, dragVars, flowVars>>

CanvasPointerDown == \E id \in PointerIds, p \in Positions : handlePointerDown(id, Pt(p))
CanvasPointerMove == \E id \in PointerIds, p \in Positions : handlePointerMove(id, Pt(p))
CanvasPointerUp == \E id \in PointerIds : handlePointerUp(id, "up")
CanvasPointerCancel == \E id \in PointerIds : handlePointerUp(id, "cancel")
Wheel == \E p \in Positions, d \in WheelDeltas : handleWheel(Pt(p), d)

(***************************************************************************)
(* Fit to screen                                                           *)
(***************************************************************************)
\* el ? el.clientHeight : 200
HeightOf(hs, id) ==
    IF id \in DOMAIN hs /\ hs[id] # Unmeasured THEN R(hs[id][1]) ELSE R(FallbackHeight)

\* the bounding box [minX, minY, maxX, maxY] of the forEach of handleResetView
\* over a non-empty collection (Math.min(Infinity, v) = v starts the fold)
RECURSIVE BoundsFrom(_, _, _, _)
BoundsFrom(ns, hs, i, acc) ==
    IF i > Len(ns) THEN acc
    ELSE LET node == ns[i]
             height == HeightOf(hs, node.id)
             first == (i = 1)
         IN  BoundsFrom(ns, hs, i + 1,
               [minX |-> IF first THEN node.x ELSE Min2(acc.minX, node.x),
                minY |-> IF first THEN node.y ELSE Min2(acc.minY, node.y),
                maxX |-> IF first THEN Add(node.x, R(NODE_WIDTH))
                         ELSE Max2(acc.maxX, Add(node.x, R(NODE_WIDTH))),
                maxY |-> IF first THEN Add(node.y, height)
                         ELSE Max2(acc.maxY, Add(node.y, height))])

Bounds(ns, hs) ==
    BoundsFrom(ns, hs, 1, [minX |-> R(0), minY |-> R(0), maxX |-> R(0), maxY |-> R(0)])

\* which branch handleResetView takes
FitBranch(ns, hs) ==
    IF Len(ns) = 0 THEN "empty"
    ELSE LET b == Bounds(ns, hs)
         IN  IF Sub(b.maxX, b.minX) = R(0) \/ Sub(b.maxY, b.minY) = R(0)
             THEN "degenerate" ELSE "normal"

\* a fit scale that forgets the padding
FitScaleNoPadding(viewportWidth, viewportHeight, bbWidth, bbHeight) ==
    Min2(Min2(Div(viewportWidth, bbWidth), Div(viewportHeight, bbHeight)), FitMaxScale)

\* Math.min(scaleX, scaleY, 1.5) of handleResetView
FitScale(viewportWidth, viewportHeight, bbWidth, bbHeight) ==
    LET scaleX == Div(Sub(viewportWidth, R(PADDING * 2)), bbWidth)
        scaleY == Div(Sub(viewportHeight, R(PADDING * 2)), bbHeight)
    IN  Min2(Min2(scaleX, scaleY), FitMaxScale)

\* an offset that puts the low edge of the box at the low edge of the viewport
FitOffsetToEdge(viewportSize, bbSize, min, scale) == Neg(Mul(min, scale))

\* (viewportWidth - bbWidth * scale) / 2 - minX * scale, and the same for y
FitOffset(viewportSize, bbSize, min, scale) ==
    Sub(Div(Sub(viewportSize, Mul(bbSize, scale)), R(2)), Mul(min, scale))

\* a fit that centres an empty collection like a single point at the origin
FitTransformCentresEmpty(ns, hs, view) ==
    [x |-> Sub(Div(R(view.w), R(2)), Div(R(NODE_WIDTH), R(2))),
     y |-> Sub(Div(R(view.h), R(2)), R(100)),
     scale |-> R(1)]

\* the transform handleResetView sets
FitTransform(ns, hs, view) ==
    IF Len(ns) = 0 THEN [x |-> R(0), y |-> R(0), scale |-> R(1)]
    ELSE
    LET b == Bounds(ns, hs)
        viewportWidth == R(view.w)
        viewportHeight == R(view.h)
        bbWidth == Sub(b.maxX, b.minX)
        bbHeight == Sub(b.maxY, b.minY)
    IN  IF bbWidth = R(0) \/ bbHeight = R(0)
        THEN LET scale == R(1)
             IN  [x |-> Sub(Div(viewportWidth, R(2)),
                            Mul(Add(b.minX, Div(R(NODE_WIDTH), R(2))), scale)),
                  y |-> Sub(Div(viewportHeight, R(2)), Mul(Add(b.minY, R(100)), scale)),
                  scale |-> scale]
        ELSE LET scale == FitScale(viewportWidth, viewportHeight, bbWidth, bbHeight)
                 newX == FitOffset(viewportWidth, bbWidth, b.minX, scale)
                 newY == FitOffset(viewportHeight, bbHeight, b.minY, scale)
             IN  [x |-> newX, y |-> newY, scale |-> scale]

handleResetView ==
    /\ Tick
    /\ transform' = FitTransform(nodes, heights, viewport)
    /\ ev' = Event("fit", 0, NoPos, 0, FitBranch(nodes, heights))
    /\ UNCHANGED <<renderVars, viewport, pointers, storeVars, capture, dragVars, flowVars>>

\* What the canvas can show after submits, completions and drags: a window
\* size with a node collection of <<x, y, height>> triples (height 0: an
\* element that is not laid out).  In order: the welcome node alone; a parent
\* above its child; two nodes dragged 16000 apart horizontally; two nodes
\* 12000 apart vertically; the welcome node in the low window; one collapsed
\* node.
Scenes ==
    { <<DesktopView, << <<308, 200, 200>> >> >>,
      <<DesktopView, << <<0, 0, 100>>, <<0, 300, 100>> >> >>,
      <<DesktopView, << <<0, 0, 200>>, <<15616, 0, 200>> >> >>,
      <<DesktopView, << <<-16, 0, 200>>, <<0, 11800, 200>> >> >>,
      <<LowView, << <<128, 50, 200>> >> >>,
      <<DesktopView, << <<10, 20, 0>> >> >> }

LayoutNodes(l) ==
    [i \in 1..Len(l) |->
        [NodeRec(<<"n", i>>, IF i = 1 THEN "PROMPT" ELSE "AI_RESPONSE",
                 R(l[i][1]), R(l[i][2]), IF i = 1 THEN NoParent ELSE <<"n", 1>>)
            EXCEPT !.triggeredByAction = IF i = 1 THEN NoAction ELSE "DEEPEN_THOUGHT",
                   !.file = (i = 1)]]

LayoutHeights(l) == [id \in {<<"n", i>> : i \in 1..Len(l)} |-> Measured(l[id[2]][3])]

\* the canvas showing one of the Scenes, before any gesture
InitView ==
    /\ \E s \in Scenes :
          /\ viewport = [w |-> s[1][1], h |-> s[1][2]]
          /\ nodes = LayoutNodes(s[2])
          /\ heights = LayoutHeights(s[2])
    /\ transform = [x |-> Div(R(viewport.w), R(4)),
                    y |-> Div(R(viewport.h), R(8)),
                    scale |-> InitialScale]
    /\ pointers = <<>>
    /\ capture = [p \in PointerIds |-> NoCapture]
    /\ drag = [id \in NodeIds(nodes) |-> IdleDrag]
    /\ painted = StyleOf(nodes)
    /\ aistudio = FALSE
    /\ isLoading = FALSE
    /\ apiKeySelected = "true"
    /\ procs = <<>>
    /\ now = 1
    /\ synapses = <<>>
    /\ ev = Event("init", 0, NoPos, 0, "none")
    /\ steps = 0

\* the Canvas given an empty node collection (the store itself always
\* keeps the welcome node)
InitEmptyView ==
    /\ viewport \in {[w |-> v[1], h |-> v[2]] : v \in Viewports}
    /\ nodes = <<>>
    /\ heights = <<>>
    /\ transform = [x |-> Div(R(viewport.w), R(4)),
                    y |-> Div(R(viewport.h), R(8)),
                    scale |-> InitialScale]
    /\ pointers = <<>>
    /\ capture = [p \in PointerIds |-> NoCapture]
    /\ drag = <<>>
    /\ painted = <<>>
    /\ aistudio = FALSE
    /\ isLoading = FALSE
    /\ apiKeySelected = "true"
    /\ procs = <<>>
    /\ now = 1
    /\ synapses = <<>>
    /\ ev = Event("init", 0, NoPos, 0, "none")
    /\ steps = 0

NextView ==
    \/ Wheel
    \/ handleZoomIn
    \/ handleZoomOut
    \/ handleResetView

SpecView == InitView /\ [][NextView]_vars

\* wheel events over one point of the canvas
WheelAtOrigin == \E d \in WheelDeltas : handleWheel(NoPos, d)

SpecEmptyView == InitEmptyView /\ [][NextView]_vars

\* pointer sets in the middle of a gesture, in the order of the presses:
\* two pointers pressed on the background, or three
HeldPointers ==
    { << [id |-> 1, pos |-> Pt(p)], [id |-> 2, pos |-> Pt(q)] >> :
         p \in Positions, q \in Positions } \cup
    { << [id |-> 1, pos |-> Pt(<<0, 0>>)], [id |-> 2, pos |-> Pt(<<60, 80>>)],
         [id |-> 3, pos |-> Pt(<<480, 640>>)] >>,
      << [id |-> 3, pos |-> Pt(<<60, 80>>)], [id |-> 1, pos |-> Pt(<<480, 640>>)],
         [id |-> 2, pos |-> Pt(<<0, 0>>)] >> }

\* the canvas after the presses of a multi-touch gesture
InitGesture ==
    /\ InitFlow
    /\ viewport = [w |-> DesktopView[1], h |-> DesktopView[2]]
    /\ transform = [x |-> Div(R(viewport.w), R(4)),
                    y |-> Div(R(viewport.h), R(8)),
                    scale |-> InitialScale]
    /\ pointers \in HeldPointers
    /\ nodes = <<initialNode(viewport)>>
    /\ heights \in [{InitialId} -> {Measured(h) : h \in RenderedHeights}]
    /\ capture = [p \in PointerIds |->
                    IF MapHas(pointers, p) THEN CanvasCapture ELSE NoCapture]
    /\ drag = [id \in NodeIds(nodes) |-> IdleDrag]
    /\ painted = StyleOf(nodes)
    /\ synapses = <<>>
    /\ ev = Event("down", 0, NoPos, 0, "none")
    /\ steps = 0

NextGesture ==
    \/ CanvasPointerDown
    \/ CanvasPointerMove
    \/ CanvasPointerUp
    \/ CanvasPointerCancel

SpecGesture == InitGesture /\ [][NextGesture]_vars

NextZoom ==
    \/ CanvasPointerDown
    \/ CanvasPointerMove
    \/ CanvasPointerUp
    \/ CanvasPointerCancel
    \/ WheelAtOrigin
    \/ handleZoomIn
    \/ handleZoomOut

SpecZoom == Init /\ [][NextZoom]_vars

(***************************************************************************)
(* The node store                                                          *)
(***************************************************************************)
\* nodes.findIndex(n => n.id === id): the first index, 0 for -1
FindIndex(ns, id) ==
    IF \E i \in 1..Len(ns) : ns[i].id = id
    THEN CHOOSE i \in 1..Len(ns) :
            ns[i].id = id /\ \A j \in 1..(i - 1) : ns[j].id # id
    ELSE 0

\* an update that adds a node when none has the id
updateNodeUpserts(ns, upd) ==
    LET i == FindIndex(ns, upd.id)
    IN  IF i = 0 THEN Append(ns, NodeRec(upd.id, "LOADING", R(0), R(0), NoParent))
        ELSE [ns EXCEPT ![i] =
                [k \in DOMAIN ns[i] |->
                    IF k \in DOMAIN upd THEN upd[k] ELSE ns[i][k]]]

\* an update that moves the merged node to the end of the collection
updateNodeMovesLast(ns, upd) ==
    LET i == FindIndex(ns, upd.id)
    IN  IF i = 0 THEN ns
        ELSE Append(SubSeq(ns, 1, i - 1) \o SubSeq(ns, i + 1, Len(ns)),
                    [k \in DOMAIN ns[i] |->
                        IF k \in DOMAIN upd THEN upd[k] ELSE ns[i][k]])

\* useCanvasStore.updateNode: merge upd into the first node with its id
updateNode(ns, upd) ==
    LET i == FindIndex(ns, upd.id)
    IN  IF i = 0 THEN ns
        ELSE [ns EXCEPT ![i] =
                [k \in DOMAIN ns[i] |->
                    IF k \in DOMAIN upd THEN upd[k] ELSE ns[i][k]]]

\* CanvasManager.handleNodeDrag
handleNodeDrag(ns, id, x, y) == updateNode(ns, [id |-> id, x |-> x, y |-> y])

(***************************************************************************)
(* Node drag controller                                                    *)
(***************************************************************************)
DragButtons == {0, 2}
DragPointerIds == {1, 2}

\* a drag position that forgets to divide the screen delta by the scale
DragPositionUnscaled(d, pos, scale) ==
    [x |-> Add(d.nodeStartX, Sub(pos.x, d.startX)),
     y |-> Add(d.nodeStartY, Sub(pos.y, d.startY))]

\* newX/newY of handlePointerMove, finalX/finalY of handlePointerUp
DragPosition(d, pos, scale) ==
    LET deltaX == Div(Sub(pos.x, d.startX), scale)
        deltaY == Div(Sub(pos.y, d.startY), scale)
    IN  [x |-> Add(d.nodeStartX, deltaX), y |-> Add(d.nodeStartY, deltaY)]

\* Node handlePointerDown on node n; a press of another button returns
\* before stopPropagation and so bubbles to the canvas handlePointerDown
NodeDown(n, id, pos, button) ==
    /\ Tick
    /\ n \in NodeIds(nodes)
    /\ capture[id] = NoCapture      \* a pointer that is down is not pressed again
    /\ IF button # 0
       THEN /\ ev' = Event("nodeDown", id, pos, n, "ignored")
            /\ pointers' = CanvasDownPointers(pointers, id, pos, FALSE)
            /\ UNCHANGED <<drag, painted, capture>>
       ELSE LET node == nodes[FindIndex(nodes, n)]
            IN  /\ drag' = [drag EXCEPT ![n] =
                               [isDragging |-> TRUE,
                                startX |-> pos.x, startY |-> pos.y,
                                nodeStartX |-> node.x, nodeStartY |-> node.y]]
                /\ capture' = [capture EXCEPT ![id] = n]
                /\ ev' = Event("nodeDown", id, pos, n, "start")
                /\ UNCHANGED <<pointers, painted>>
    /\ UNCHANGED <<renderVars, viewport, transform, storeVars, flowVars>>

\* a move handler that also commits the position it paints
PointerMoveCommits(ns, dr, pt, n, pos, scale) ==
    IF ~dr[n].isDragging
    THEN [nodes |-> ns, painted |-> pt]
    ELSE LET new == DragPosition(dr[n], pos, scale)
         IN  [nodes |-> handleNodeDrag(ns, n, new.x, new.y),
              painted |-> [pt EXCEPT ![n] = new]]

\* Node handlePointerMove on node n: the store and the element styles it
\* leaves
PointerMoveEffect(ns, dr, pt, n, pos, scale) ==
    IF ~dr[n].isDragging
    THEN [nodes |-> ns, painted |-> pt]
    ELSE [nodes |-> ns, painted |-> [pt EXCEPT ![n] = DragPosition(dr[n], pos, scale)]]

\* Node handlePointerMove on node n: the new position is only painted
\* (nodeEl.style.transform); the event then bubbles to the canvas handler
NodeMove(n, id, pos) ==
    /\ Tick
    /\ n \in NodeIds(nodes)
    /\ capture[id] \in {NoCapture, n}
    /\ ev' = Event("nodeMove", id, pos, n,
                   IF drag[n].isDragging THEN "visual" ELSE "idle")
    /\ LET after == PointerMoveEffect(nodes, drag, painted, n, pos, transform.scale)
       IN  /\ nodes' = after.nodes
           /\ painted' = after.painted
    /\ IF MapHas(pointers, id)
       THEN /\ pointers' = MapSet(pointers, id, pos)
            /\ transform' = MoveTransform(transform, pointers, id, pos)
       ELSE UNCHANGED <<pointers, transform>>
    /\ UNCHANGED <<renderVars, viewport, heights, capture, drag, flowVars>>

\* a release handler without the isDragging guard
PointerUpAlwaysCommits(ns, dr, n, pos, scale) ==
    LET final == DragPosition(dr[n], pos, scale)
    IN  [nodes |-> handleNodeDrag(ns, n, final.x, final.y),
         drag |-> [dr EXCEPT ![n].isDragging = FALSE],
         branch |-> "commit"]

\* Node handlePointerUp on node n: the store and the dragState it leaves,
\* and whether handleNodeDrag was called ("commit") or not ("idle")
PointerUpEffect(ns, dr, n, pos, scale) ==
    IF ~dr[n].isDragging
    THEN [nodes |-> ns, drag |-> dr, branch |-> "idle"]
    ELSE LET final == DragPosition(dr[n], pos, scale)
         IN  [nodes |-> handleNodeDrag(ns, n, final.x, final.y),
              drag |-> [dr EXCEPT ![n].isDragging = FALSE],
              branch |-> "commit"]

\* a cancel handler that ends the drag without committing
PointerCancelDiscards(ns, dr, n, pos, scale) ==
    [nodes |-> ns, drag |-> [dr EXCEPT ![n].isDragging = FALSE],
     branch |-> IF dr[n].isDragging THEN "commit" ELSE "idle"]

\* Node handlePointerCancel on node n
PointerCancelEffect(ns, dr, n, pos, scale) ==
    IF ~dr[n].isDragging
    THEN [nodes |-> ns, drag |-> dr, branch |-> "idle"]
    ELSE PointerUpEffect(ns, dr, n, pos, scale)

\* the pointerup (type "nodeUp") or pointercancel (type "nodeCancel")
\* listener of node n; the event then bubbles to the canvas handlePointerUp
NodeUp(n, id, pos, type) ==
    /\ Tick
    /\ n \in NodeIds(nodes)
    /\ capture[id] \in {NoCapture, n}
    /\ LET after == IF type = "nodeCancel"
                    THEN PointerCancelEffect(nodes, drag, n, pos, transform.scale)
                    ELSE PointerUpEffect(nodes, drag, n, pos, transform.scale)
       IN  /\ nodes' = after.nodes
           /\ drag' = after.drag
           /\ painted' = Repaint(painted, nodes, after.nodes)
           /\ ev' = Event(type, id, pos, n, after.branch)
    /\ capture' = [capture EXCEPT ![id] = NoCapture]
    /\ pointers' = MapDelete(pointers, id)
    /\ UNCHANGED <<renderVars, viewport, transform, heights, flowVars>>

NodePointerDown ==
    \E n \in NodeIds(nodes), id \in DragPointerIds, p \in Positions, b \in DragButtons :
        NodeDown(n, id, Pt(p), b)
NodePointerMove ==
    \E n \in NodeIds(nodes), id \in DragPointerIds, p \in Positions : NodeMove(n, id, Pt(p))
NodePointerUp ==
    \E n \in NodeIds(nodes), id \in DragPointerIds, p \in Positions :
        NodeUp(n, id, Pt(p), "nodeUp")
NodePointerCancel ==
    \E n \in NodeIds(nodes), id \in DragPointerIds, p \in Positions :
        NodeUp(n, id, Pt(p), "nodeCancel")

\* presses, moves and releases on the canvas background by the pointers
\* that can also drag a node
BackgroundDown == \E id \in DragPointerIds, p \in Positions : handlePointerDown(id, Pt(p))
BackgroundMove == \E id \in DragPointerIds, p \in Positions : handlePointerMove(id, Pt(p))
BackgroundUp == \E id \in DragPointerIds : handlePointerUp(id, "up")

NextScope ==
    \/ BackgroundDown
    \/ BackgroundMove
    \/ BackgroundUp
    \/ NodePointerDown
    \/ NodePointerMove
    \/ NodePointerUp
    \/ NodePointerCancel

SpecScope == Init /\ [][NextScope]_vars

\* a primary press and a release of one pointer on any node
PrimaryPress == \E n \in NodeIds(nodes), p \in Positions : NodeDown(n, 1, Pt(p), 0)
PrimaryRelease == \E n \in NodeIds(nodes), p \in Positions : NodeUp(n, 1, Pt(p), "nodeUp")

NextCommit ==
    \/ PrimaryPress
    \/ PrimaryRelease
    \/ handleZoomIn

\* drags over the Scenes
SpecCommit == InitView /\ [][NextCommit]_vars

NextDrag ==
    \/ NodePointerDown
    \/ NodePointerMove
    \/ NodePointerUp
    \/ NodePointerCancel
    \/ WheelAtOrigin
    \/ handleZoomIn
    \/ handleZoomOut

SpecDrag == Init /\ [][NextDrag]_vars

(***************************************************************************)
(* CanvasManager: prompts, node actions and the AI process                 *)
(***************************************************************************)
MaxFlowSteps == 4

\* one more event of the prompt flow handled
FlowTick ==
    /\ steps < MaxFlowSteps
    /\ steps' = steps + 1

Contents == {"text", "video"}
NodeActions == {"GENERATE_IMAGE", "GENERATE_VIDEO", "DEEPEN_THOUGHT"}
SiblingGap == 40

\* a removal that also takes the parent of the removed node
removeNodeWithParent(ns, id) ==
    LET parents == {ns[i].parentId : i \in {j \in 1..Len(ns) : ns[j].id = id}}
    IN  SelectSeq(ns, LAMBDA n : n.id # id /\ n.id \notin parents)

\* useCanvasStore.addNode, removeNode
addNode(ns, node) == Append(ns, node)
removeNode(ns, id) == SelectSeq(ns, LAMBDA n : n.id # id)

\* all but the i-th pending continuation
Without(ps, i) == SubSeq(ps, 1, i - 1) \o SubSeq(ps, i + 1, Len(ps))

\* a placement whose group width counts childrenCount - 1 gaps also for no
\* children
getNewNodePositionUnguardedGap(ns, parentNode) ==
    LET childrenCount == Cardinality({i \in 1..Len(ns) : ns[i].parentId = parentNode.id})
        groupWidth == childrenCount * NODE_WIDTH + (childrenCount - 1) * SiblingGap
        startX == Sub(Add(parentNode.x, Div(R(NODE_WIDTH), R(2))), Div(R(groupWidth), R(2)))
        newX == Add(startX, R(childrenCount * (NODE_WIDTH + SiblingGap)))
    IN  [x |-> newX, y |-> Add(parentNode.y, R(yOffset))]

\* CanvasManager.getNewNodePosition
getNewNodePosition(ns, parentNode) ==
    LET childrenCount == Cardinality({i \in 1..Len(ns) : ns[i].parentId = parentNode.id})
        groupWidth == childrenCount * NODE_WIDTH
                        + (IF childrenCount - 1 > 0 THEN childrenCount - 1 ELSE 0) * SiblingGap
        startX == Sub(Add(parentNode.x, Div(R(NODE_WIDTH), R(2))), Div(R(groupWidth), R(2)))
        newX == Add(startX, R(childrenCount * (NODE_WIDTH + SiblingGap)))
    IN  [x |-> newX, y |-> Add(parentNode.y, R(yOffset))]

\* Node components mount and unmount with the store: element heights and
\* dragState refs follow the node ids; a removed element loses its capture
Rendered(ns) ==
    /\ heights' = [id \in NodeIds(ns) |->
                     IF id \in DOMAIN heights THEN heights[id]
                     ELSE Measured(CHOOSE h \in RenderedHeights : TRUE)]
    /\ drag' = [id \in NodeIds(ns) |->
                  IF id \in DOMAIN drag THEN drag[id] ELSE IdleDrag]
    /\ painted' = Repaint(painted, nodes, ns)
    /\ capture' = [p \in PointerIds |->
                     IF capture[p] \in NodeIds(ns) \cup {NoCapture, CanvasCapture}
                     THEN capture[p] ELSE NoCapture]

\* the error node of runAIProcess: `error-${Date.now()}` at getNewNodePosition
\* or at the loading node's place
ErrorNode(promptNode, x, y) ==
    NodeRec(<<"error", now>>, "ERROR", x, y, promptNode.id)

\* runAIProcess from loadingNodeId on, up to the await of processRequest
StartLoading(ns, ps, promptNode, file, action) ==
    LET loadingNodeId == <<"loading", now>>
        pos == getNewNodePosition(ns, promptNode)
    IN  /\ nodes' = addNode(ns, NodeRec(loadingNodeId, "LOADING", pos.x, pos.y, promptNode.id))
        /\ procs' = Append(ps, Proc("ai", promptNode, file, action, loadingNodeId, pos.x, pos.y))
        /\ isLoading' = TRUE

\* a runAIProcess whose refusal of a video request leaves isLoading set
runAIProcessKeepsLoading(ns, ps, promptNode, file, action) ==
    LET isVideo == action = "GENERATE_VIDEO" \/ promptNode.content = "video"
    IN  IF isVideo /\ apiKeySelected # "true"
        THEN IF aistudio
             THEN /\ procs' = Append(ps, Proc("key", promptNode, file, action,
                                              NoParent, R(0), R(0)))
                  /\ nodes' = ns
                  /\ isLoading' = TRUE
                  /\ UNCHANGED apiKeySelected
             ELSE LET pos == getNewNodePosition(ns, promptNode)
                  IN  /\ nodes' = addNode(ns, ErrorNode(promptNode, pos.x, pos.y))
                      /\ procs' = ps
                      /\ isLoading' = TRUE
                      /\ UNCHANGED apiKeySelected
        ELSE /\ StartLoading(ns, ps, promptNode, file, action)
             /\ UNCHANGED apiKeySelected

\* CanvasManager.runAIProcess up to its first await, on store nodes ns
runAIProcess(ns, ps, promptNode, file, action) ==
    LET isVideo == action = "GENERATE_VIDEO" \/ promptNode.content = "video"
    IN  IF isVideo /\ apiKeySelected # "true"
        THEN IF aistudio
             THEN /\ procs' = Append(ps, Proc("key", promptNode, file, action,
                                              NoParent, R(0), R(0)))
                  /\ nodes' = ns
                  /\ isLoading' = TRUE
                  /\ UNCHANGED apiKeySelected
             ELSE LET pos == getNewNodePosition(ns, promptNode)
                  IN  /\ nodes' = addNode(ns, ErrorNode(promptNode, pos.x, pos.y))
                      /\ procs' = ps
                      /\ isLoading' = FALSE
                      /\ UNCHANGED apiKeySelected
        ELSE /\ StartLoading(ns, ps, promptNode, file, action)
             /\ UNCHANGED apiKeySelected

\* the rest of every flow step
FlowFrame ==
    /\ Rendered(nodes')
    /\ UNCHANGED <<renderVars, viewport, canvasVars, now, aistudio>>

\* checkApiKey after hasSelectedApiKey resolved
KeyChecked(i, hasKey) ==
    /\ FlowTick
    /\ procs[i].kind = "check"
    /\ apiKeySelected' = IF hasKey THEN "true" ELSE "false"
    /\ procs' = Without(procs, i)
    /\ ev' = Event("keyChecked", 0, NoPos, hasKey, "none")
    /\ UNCHANGED <<nodes, isLoading>>
    /\ FlowFrame

\* the rootNode of handleSubmit
RootNode(ns, content, file) ==
    LET roots == {i \in 1..Len(ns) : ns[i].parentId = NoParent}
        first == CHOOSE i \in roots : \A j \in roots : i <= j
        x == IF roots # {} THEN Add(ns[first].x, R(NODE_WIDTH + 100))
             ELSE Sub(Div(R(viewport.w), R(2)), R(192))
        y == IF roots # {} THEN ns[first].y
             ELSE Sub(Div(R(viewport.h), R(2)), R(100))
    IN  [NodeRec(<<"ts", now>>, "PROMPT", x, y, NoParent)
            EXCEPT !.content = content, !.file = file]

\* InputBar.handleSubmit -> CanvasManager.handleSubmit
handleSubmit(content, file) ==
    /\ FlowTick
    /\ ~isLoading
    /\ LET rootNode == RootNode(nodes, content, file)
       IN  IF file
           THEN /\ procs' = Append(procs, Proc("read", rootNode, file, NoAction,
                                               NoParent, R(0), R(0)))
                /\ UNCHANGED <<nodes, isLoading, apiKeySelected>>
                /\ ev' = Event("submit", 0, NoPos, rootNode.id, "reading")
           ELSE /\ runAIProcess(addNode(nodes, rootNode), procs, rootNode, file, NoAction)
                /\ ev' = FlowEvent("submit", rootNode, NoAction, "run")
    /\ FlowFrame

\* reader.onloadend of handleSubmit
ReaderLoadEnd(i) ==
    /\ FlowTick
    /\ procs[i].kind = "read"
    /\ runAIProcess(addNode(nodes, procs[i].node), Without(procs, i),
                    procs[i].node, TRUE, NoAction)
    /\ ev' = FlowEvent("loadend", procs[i].node, NoAction, "run")
    /\ FlowFrame

\* the actions NodeActions offers on a node of the given type
ActionsOf(type) ==
    CASE type \in {"PROMPT", "AI_RESPONSE"} -> NodeActions
      [] type = "GENERATED_IMAGE" -> {"GENERATE_VIDEO"}
      [] OTHER -> {}

\* NodeActions.handleAction -> CanvasManager.handleNodeAction on the rendered
\* node k; typed is the description entered in window.prompt
handleNodeAction(k, action, typed) ==
    /\ FlowTick
    /\ k \in 1..Len(nodes)
    /\ action \in ActionsOf(nodes[k].type)
    /\ LET sourceNode == nodes[k]
           newPrompt == IF action = "DEEPEN_THOUGHT" THEN sourceNode.content ELSE typed
           promptNode == [sourceNode EXCEPT !.content = newPrompt]
       IN  IF sourceNode.type = "GENERATED_IMAGE" \/ sourceNode.file
           THEN /\ procs' = Append(procs, Proc("fetch", promptNode, TRUE, action,
                                               NoParent, R(0), R(0)))
                /\ UNCHANGED <<nodes, isLoading, apiKeySelected>>
                /\ ev' = Event("action", 0, NoPos, sourceNode.id, "fetching")
           ELSE /\ runAIProcess(nodes, procs, promptNode, FALSE, action)
                /\ ev' = FlowEvent("action", promptNode, action, "run")
    /\ FlowFrame

\* handleNodeAction after its fetch and blob awaits
FetchDone(i) ==
    /\ FlowTick
    /\ procs[i].kind = "fetch"
    /\ runAIProcess(nodes, Without(procs, i), procs[i].node, TRUE, procs[i].action)
    /\ ev' = FlowEvent("fetched", procs[i].node, procs[i].action, "run")
    /\ FlowFrame

\* runAIProcess after openSelectKey resolved
KeySelected(i) ==
    /\ FlowTick
    /\ procs[i].kind = "key"
    /\ apiKeySelected' = "true"
    /\ StartLoading(nodes, Without(procs, i), procs[i].node, procs[i].file, procs[i].action)
    /\ ev' = FlowEvent("keySelected", procs[i].node, procs[i].action, "run")
    /\ FlowFrame

\* runAIProcess after openSelectKey rejected: the catch of lines 58-63
KeyRejected(i) ==
    /\ FlowTick
    /\ procs[i].kind = "key"
    /\ LET pos == getNewNodePosition(nodes, procs[i].node)
       IN  nodes' = addNode(nodes, ErrorNode(procs[i].node, pos.x, pos.y))
    /\ isLoading' = FALSE
    /\ procs' = Without(procs, i)
    /\ ev' = FlowEvent("keyRejected", procs[i].node, procs[i].action, "error")
    /\ UNCHANGED apiKeySelected
    /\ FlowFrame

\* the route processRequest takes
Route(p) ==
    IF p.action = "GENERATE_VIDEO" \/ p.node.content = "video" THEN "GENERATED_VIDEO"
    ELSE IF p.action = "GENERATE_IMAGE" \/ p.file THEN "GENERATED_IMAGE"
    ELSE "AI_RESPONSE"

\* onProgress of generateVideo: updateNode({id: loadingNodeId, content})
Progress(i) ==
    /\ FlowTick
    /\ procs[i].kind = "ai"
    /\ Route(procs[i]) = "GENERATED_VIDEO"
    /\ nodes' = updateNode(nodes, [id |-> procs[i].loadingNodeId, content |-> "video"])
    /\ ev' = Event("progress", 0, NoPos, procs[i].loadingNodeId, "none")
    /\ UNCHANGED <<isLoading, apiKeySelected, procs>>
    /\ FlowFrame

\* runAIProcess after processRequest resolved
Responded(i) ==
    /\ FlowTick
    /\ procs[i].kind = "ai"
    /\ LET p == procs[i]
           responseNode == [NodeRec(<<"ts", now>>, Route(p), p.x, p.y, p.node.id)
                               EXCEPT !.triggeredByAction = p.action]
       IN  nodes' = addNode(removeNode(nodes, p.loadingNodeId), responseNode)
    /\ isLoading' = FALSE
    /\ procs' = Without(procs, i)
    /\ ev' = Event("responded", 0, NoPos, procs[i].loadingNodeId, "none")
    /\ UNCHANGED apiKeySelected
    /\ FlowFrame

\* runAIProcess after processRequest rejected; notFound is whether the
\* message includes "Requested entity was not found."
Failed(i, notFound) ==
    /\ FlowTick
    /\ procs[i].kind = "ai"
    /\ LET p == procs[i]
       IN  nodes' = addNode(removeNode(nodes, p.loadingNodeId), ErrorNode(p.node, p.x, p.y))
    /\ apiKeySelected' = IF notFound THEN "false" ELSE apiKeySelected
    /\ isLoading' = FALSE
    /\ procs' = Without(procs, i)
    /\ ev' = Event("failed", 0, NoPos, procs[i].loadingNodeId,
                   IF notFound THEN "notFound" ELSE "other")
    /\ FlowFrame

\* a millisecond passes
ClockAdvance ==
    /\ FlowTick
    /\ now' = now + 1
    /\ ev' = Event("clock", 0, NoPos, NoParent, "none")
    /\ UNCHANGED <<renderVars, viewport, canvasVars, storeVars, capture, dragVars,
                   isLoading, apiKeySelected, procs, aistudio>>

ApiKeyChecked == \E i \in 1..Len(procs), hasKey \in BOOLEAN : KeyChecked(i, hasKey)
Submit == \E c \in Contents, f \in BOOLEAN : handleSubmit(c, f)
FileRead == \E i \in 1..Len(procs) : ReaderLoadEnd(i)
NodeActionClicked ==
    \E k \in 1..Len(nodes), a \in NodeActions, c \in Contents : handleNodeAction(k, a, c)
SourceFetched == \E i \in 1..Len(procs) : FetchDone(i)
OpenSelectKeyResolved == \E i \in 1..Len(procs) : KeySelected(i)
OpenSelectKeyRejected == \E i \in 1..Len(procs) : KeyRejected(i)
VideoProgress == \E i \in 1..Len(procs) : Progress(i)
ProcessResolved == \E i \in 1..Len(procs) : Responded(i)
ProcessRejected == \E i \in 1..Len(procs), nf \in BOOLEAN : Failed(i, nf)

NextFlow ==
    \/ ApiKeyChecked
    \/ Submit
    \/ FileRead
    \/ NodeActionClicked
    \/ SourceFetched
    \/ OpenSelectKeyResolved
    \/ OpenSelectKeyRejected
    \/ VideoProgress
    \/ ProcessResolved
    \/ ProcessRejected
    \/ ClockAdvance

SpecFlow == Init /\ [][NextFlow]_vars

\* a drag of a node by the screen vector (60, 80): the press and the release
DragPress == \E n \in NodeIds(nodes) : NodeDown(n, 1, Pt(<<0, 0>>), 0)
DragRelease == \E n \in NodeIds(nodes) : NodeUp(n, 1, Pt(<<60, 80>>), "nodeUp")

\* the prompt flow with drags of the nodes it creates
NextFlowDrag ==
    \/ ApiKeyChecked
    \/ Submit
    \/ FileRead
    \/ NodeActionClicked
    \/ SourceFetched
    \/ OpenSelectKeyResolved
    \/ OpenSelectKeyRejected
    \/ VideoProgress
    \/ ProcessResolved
    \/ ProcessRejected
    \/ ClockAdvance
    \/ DragPress
    \/ DragRelease

SpecFlowDrag == Init /\ [][NextFlowDrag]_vars

(***************************************************************************)
(* Connector canvas: calculateSynapsePoints and the render of the Synapses *)
(***************************************************************************)
Point(x, y) == [x |-> x, y |-> y]

\* fromAnchors / toAnchors: top, bottom, left, right
Anchors(n, height) ==
    << Point(Add(n.x, Div(R(NODE_WIDTH), R(2))), n.y),
       Point(Add(n.x, Div(R(NODE_WIDTH), R(2))), Add(n.y, R(height))),
       Point(n.x, Add(n.y, Div(R(height), R(2)))),
       Point(Add(n.x, R(NODE_WIDTH)), Add(n.y, Div(R(height), R(2)))) >>

\* the radicand of distance; Math.sqrt is increasing, so that comparing
\* distances is comparing radicands
Distance2(a, b) ==
    Add(Mul(Sub(a.x, b.x), Sub(a.x, b.x)), Mul(Sub(a.y, b.y), Sub(a.y, b.y)))

\* the two nested loops from their k-th iteration on (k = 0..15); found is
\* whether minDistance is still Infinity
RECURSIVE ScanPairs(_, _, _, _, _, _)
ScanPairs(fromAnchors, toAnchors, k, found, minDistance, bestPair) ==
    IF k = 16 THEN bestPair
    ELSE LET fromPoint == fromAnchors[(k \div 4) + 1]
             toPoint == toAnchors[(k % 4) + 1]
             distance == Distance2(fromPoint, toPoint)
         IN  IF ~found \/ Lt(distance, minDistance)
             THEN ScanPairs(fromAnchors, toAnchors, k + 1, TRUE, distance,
                            [start |-> fromPoint, end |-> toPoint])
             ELSE ScanPairs(fromAnchors, toAnchors, k + 1, found, minDistance, bestPair)

\* a connector that falls back to the raw positions only when both elements
\* are missing, and takes the fallback height for a single missing one
SynapseFallbackNeedsBoth(from, to, fromEl, toEl) ==
    IF fromEl = Unmeasured /\ toEl = Unmeasured
    THEN [start |-> Point(from.x, from.y), end |-> Point(to.x, to.y)]
    ELSE [start |-> Anchors(from, IF fromEl = Unmeasured THEN FallbackHeight ELSE fromEl[1])[2],
          end |-> Anchors(to, IF toEl = Unmeasured THEN FallbackHeight ELSE toEl[1])[1]]

\* a connector that always joins the two top anchors
SynapseTopToTop(from, to, fromEl, toEl) ==
    IF fromEl = Unmeasured \/ toEl = Unmeasured
    THEN [start |-> Point(from.x, from.y), end |-> Point(to.x, to.y)]
    ELSE [start |-> Anchors(from, fromEl[1])[1], end |-> Anchors(to, toEl[1])[1]]

calculateSynapsePoints(from, to, fromEl, toEl) ==
    IF fromEl = Unmeasured \/ toEl = Unmeasured
    THEN [start |-> Point(from.x, from.y), end |-> Point(to.x, to.y)]
    ELSE LET fromAnchors == Anchors(from, fromEl[1])
             toAnchors == Anchors(to, toEl[1])
         IN  ScanPairs(fromAnchors, toAnchors, 0, FALSE, R(0),
                       [start |-> fromAnchors[1], end |-> toAnchors[1]])

\* nodeElements.current[id]
ElementOf(els, id) == IF id \in DOMAIN els THEN els[id] ELSE Unmeasured

\* nodesById[id]: the reduce keeps the last node of an id
NodeById(ns, id) ==
    ns[CHOOSE i \in 1..Len(ns) :
            ns[i].id = id /\ \A j \in (i + 1)..Len(ns) : ns[j].id # id]

\* a render that hangs a node with a dangling parentId on the first node
RenderSynapsesDanglingToFirst(ns, els) ==
    LET linked == SelectSeq([i \in 1..Len(ns) |-> i],
                            LAMBDA i : ns[i].parentId # NoParent)
    IN  [k \in 1..Len(linked) |->
            LET to == ns[linked[k]]
                from == IF to.parentId \in NodeIds(ns)
                        THEN NodeById(ns, to.parentId) ELSE ns[1]
                fromEl == ElementOf(els, from.id)
                toEl == ElementOf(els, to.id)
                points == calculateSynapsePoints(from, to, fromEl, toEl)
            IN  [from |-> from, to |-> to, fromEl |-> fromEl, toEl |-> toEl,
                 start |-> points.start, end |-> points.end]]

\* the Synapse elements of one render, each with the elements it was given
RenderSynapses(ns, els) ==
    LET linked == SelectSeq([i \in 1..Len(ns) |-> i],
                            LAMBDA i : /\ ns[i].parentId # NoParent
                                       /\ ns[i].parentId \in NodeIds(ns))
    IN  [k \in 1..Len(linked) |->
            LET to == ns[linked[k]]
                from == NodeById(ns, to.parentId)
                fromEl == ElementOf(els, to.parentId)
                toEl == ElementOf(els, to.id)
                points == calculateSynapsePoints(from, to, fromEl, toEl)
            IN  [from |-> from, to |-> to, fromEl |-> fromEl, toEl |-> toEl,
                 start |-> points.start, end |-> points.end]]

\* the Canvas component renders
RenderCanvas ==
    /\ Tick
    /\ synapses' = RenderSynapses(nodes, heights)
    /\ ev' = Event("render", 0, NoPos, NoParent, "none")
    /\ UNCHANGED <<viewport, canvasVars, storeVars, capture, dragVars, flowVars>>

SynapseHeights == {100, 250}

\* the effect after a render: nodeElements caches the element of every node
CacheNodeElements ==
    /\ Tick
    /\ \E hs \in [NodeIds(nodes) -> {Measured(h) : h \in SynapseHeights}] :
            heights' = [id \in NodeIds(nodes) |->
                          IF heights[id] = Unmeasured THEN hs[id] ELSE heights[id]]
    /\ ev' = Event("cache", 0, NoPos, NoParent, "none")
    /\ UNCHANGED <<renderVars, viewport, canvasVars, nodes, capture, dragVars, flowVars>>

\* where a child is placed relative to its parent at the origin
ChildPlaces ==
    { <<0, 300>>, <<192, 300>>, <<424, 300>>, <<-500, 0>>, <<600, 50>>,
      <<0, -400>>, <<-700, -350>>, <<900, 700>>, <<100, 40>>, <<-384, 125>> }

\* a node whose parentId names no node of the collection
Orphan == NodeRec(<<"n", 3>>, "AI_RESPONSE", R(-800), R(600), <<"n", 9>>)

\* the connector canvas with a parent and a child, with or without the
\* Orphan, before the render that follows a change of the collection: no
\* element is cached yet, or only the parent's (the child was just added)
InitSynapse ==
    /\ viewport = [w |-> DesktopView[1], h |-> DesktopView[2]]
    /\ \E c \in ChildPlaces, extra \in SUBSET {Orphan} :
          nodes = << NodeRec(<<"n", 1>>, "PROMPT", R(0), R(0), NoParent),
                     NodeRec(<<"n", 2>>, "AI_RESPONSE", R(c[1]), R(c[2]), <<"n", 1>>) >>
                  \o (IF extra = {} THEN <<>> ELSE <<Orphan>>)
    /\ \E cached \in SUBSET {<<"n", 1>>} :
          heights = [id \in NodeIds(nodes) |->
                        IF id \in cached THEN Measured(100) ELSE Unmeasured]
    /\ transform = [x |-> Div(R(viewport.w), R(4)),
                    y |-> Div(R(viewport.h), R(8)),
                    scale |-> InitialScale]
    /\ pointers = <<>>
    /\ capture = [p \in PointerIds |-> NoCapture]
    /\ drag = [id \in NodeIds(nodes) |-> IdleDrag]
    /\ painted = StyleOf(nodes)
    /\ aistudio = FALSE
    /\ isLoading = FALSE
    /\ apiKeySelected = "true"
    /\ procs = <<>>
    /\ now = 1
    /\ synapses = <<>>
    /\ ev = Event("init", 0, NoPos, 0, "none")
    /\ steps = 0

NextSynapse ==
    \/ RenderCanvas
    \/ CacheNodeElements

SpecSynapse == InitSynapse /\ [][NextSynapse]_vars

(***************************************************************************)
(* Properties                                                              *)
(***************************************************************************)
InRange(s) == Le(MinScale, s) /\ Le(s, MaxScale)

\* the content-space point under screen point p for transform T
ContentUnder(p, T) ==
    [x |-> Div(Sub(p.x, T.x), T.scale), y |-> Div(Sub(p.y, T.y), T.scale)]

\* the screen point of content point (cx, cy) for transform T
ScreenOf(cx, cy, T) ==
    [x |-> Add(Mul(cx, T.scale), T.x), y |-> Add(Mul(cy, T.scale), T.y)]

\* C1: from the initial transform, after any sequence of wheel events,
\* pointer gestures and zoom button presses the scale is within [0.1, 3.0].
ScaleWithinLimits == InRange(transform.scale)

\* C1 witness: a pinch whose target scale was clamped to the upper limit
PinchClampedAtMax ==
    ev.type = "move" /\ ev.branch = "pinch" /\ transform.scale = MaxScale

\* C2: the scale written by fit-to-screen is within [0.1, 3.0].
FitScaleWithinLimits == (ev.type = "fit") => InRange(transform.scale)

\* C3: a wheel event keeps the content-space point under the cursor fixed,
\* for every prior transform, also when the target scale is clamped.
WheelAnchored ==
    [][(ev'.type = "wheel") =>
          ContentUnder(ev'.pos, transform) = ContentUnder(ev'.pos, transform')]_vars

\* C3 witness: a wheel event away from the origin whose target scale was
\* clamped to the upper limit
WheelClampedAtMax ==
    /\ ev.type = "wheel" /\ ev.arg = -3000 /\ transform.scale = MaxScale
    /\ ev.pos # NoPos

\* a pinch step: a move of a tracked pointer with two pointers before and
\* after and a non-zero old distance
PinchStep ==
    /\ ev'.type = "move"
    /\ MapHas(pointers, ev'.id)
    /\ Len(pointers) = 2 /\ Len(pointers') = 2
    /\ Distance(pointers[1].pos, pointers[2].pos) # R(0)

\* C4: after a pinch move the content-space point that was under the old
\* midpoint lies under the new midpoint, also when the scale is clamped.
PinchAnchored ==
    [][PinchStep =>
          ContentUnder(Midpoint(pointers[1].pos, pointers[2].pos), transform)
            = ContentUnder(Midpoint(pointers'[1].pos, pointers'[2].pos), transform')]_vars

\* pan deltas: displacements between two Positions
PanDeltas == {<<60, 80>>, <<-480, -640>>}

\* C5: Pan(d1) then Pan(d2) equals Pan(d1 + d2) on every reachable
\* transform, and a pan leaves the scale unchanged.
PanAccumulates ==
    \A d1 \in PanDeltas :
        LET once == Pan(transform, R(d1[1]), R(d1[2]))
        IN  /\ once.scale = transform.scale
            /\ once.x = Add(transform.x, R(d1[1]))
            /\ once.y = Add(transform.y, R(d1[2]))
            /\ \A d2 \in PanDeltas :
                    Pan(once, R(d2[1]), R(d2[2]))
                      = Pan(transform, R(d1[1] + d2[1]), R(d1[2] + d2[2]))

\* C5 witness: a single-pointer move has panned a zoomed canvas
PannedAfterZoom ==
    /\ ev.type = "move" /\ ev.branch = "pan"
    /\ transform.scale # InitialScale
    /\ transform.x # Div(R(viewport.w), R(4))

\* the corners of the bounding box lie inside the padded viewport
CornersInPaddedViewport ==
    LET b == Bounds(nodes, heights)
        lo == ScreenOf(b.minX, b.minY, transform)
        hi == ScreenOf(b.maxX, b.maxY, transform)
        InX(v) == Le(R(PADDING), v) /\ Le(v, R(viewport.w - PADDING))
        InY(v) == Le(R(PADDING), v) /\ Le(v, R(viewport.h - PADDING))
    IN  InX(lo.x) /\ InX(hi.x) /\ InY(lo.y) /\ InY(hi.y)

\* C8 as stated: for every viewport size, fit-to-screen of a box of non-zero
\* width and height maps both corners of the box into the padded viewport.
FitInPaddedViewportAnyView ==
    (ev.type = "fit" /\ FitBranch(nodes, heights) = "normal")
        => CornersInPaddedViewport

\* C8 amended: the same for every viewport wider and higher than twice the
\* padding (200).
FitInPaddedViewport ==
    (/\ ev.type = "fit" /\ FitBranch(nodes, heights) = "normal"
     /\ viewport.w > 2 * PADDING /\ viewport.h > 2 * PADDING)
        => CornersInPaddedViewport

\* C8 witness: a fit of a box far wider than the viewport
FitOfWideBox ==
    /\ ev.type = "fit" /\ FitBranch(nodes, heights) = "normal"
    /\ viewport.w > 2 * PADDING /\ viewport.h > 2 * PADDING
    /\ Lt(R(10 * viewport.w), Sub(Bounds(nodes, heights).maxX, Bounds(nodes, heights).minX))

\* C10: a move with two active pointers whose recorded positions coincide
\* leaves the transform unchanged, and the scale stays within its limits.
PinchZeroDistanceSkips ==
    [][/\ (/\ ev'.type = "move"
           /\ MapHas(pointers, ev'.id)
           /\ Len(pointers) = 2
           /\ pointers[1].pos = pointers[2].pos) => (transform' = transform)
       /\ InRange(transform'.scale)]_vars

\* C10 witness: such a move was handled, and moved the pointer away
ZeroDistanceMoveHandled ==
    /\ ev.type = "move" /\ ev.branch = "skip"
    /\ Len(pointers) = 2 /\ pointers[1].pos # pointers[2].pos

\* C6: a primary-button press on a node records the press point and the
\* node's stored position; the release commits exactly
\* (nx + dsx/s, ny + dsy/s) for the scale s at the release, so that the same
\* screen delta at scale 2 moves the node half as far as at scale 1.
DragScaleInvariant ==
    [][/\ (ev'.type = "nodeDown" /\ ev'.branch = "start") =>
            LET node == nodes[FindIndex(nodes, ev'.arg)]
            IN  drag'[ev'.arg] = [isDragging |-> TRUE,
                                  startX |-> ev'.pos.x, startY |-> ev'.pos.y,
                                  nodeStartX |-> node.x, nodeStartY |-> node.y]
       /\ (ev'.type = "nodeUp" /\ drag[ev'.arg].isDragging) =>
            LET d == drag[ev'.arg]
                s == transform.scale
                after == nodes'[FindIndex(nodes', ev'.arg)]
            IN  /\ after.x = Add(d.nodeStartX, Div(Sub(ev'.pos.x, d.startX), s))
                /\ after.y = Add(d.nodeStartY, Div(Sub(ev'.pos.y, d.startY), s))
                /\ Sub(DragPosition(d, ev'.pos, R(2)).x, d.nodeStartX)
                     = Div(Sub(DragPosition(d, ev'.pos, R(1)).x, d.nodeStartX), R(2))
                /\ Sub(DragPosition(d, ev'.pos, R(2)).y, d.nodeStartY)
                     = Div(Sub(DragPosition(d, ev'.pos, R(1)).y, d.nodeStartY), R(2))]_vars

\* C6 witness: a drag released away from its press point at a scale other
\* than 1 has moved the welcome node
DragCommittedWhileZoomed ==
    /\ ev.type = "nodeUp" /\ ev.branch = "commit"
    /\ transform.scale # R(1)
    /\ ev.pos # Pt(<<drag[ev.arg].startX[1], drag[ev.arg].startY[1]>>)
    /\ nodes[FindIndex(nodes, ev.arg)].x # drag[ev.arg].nodeStartX

\* the horizontal extents [x, x+384] of two nodes are disjoint or touching
ExtentsDisjoint(a, b) ==
    \/ Le(Add(a.x, R(NODE_WIDTH)), b.x)
    \/ Le(Add(b.x, R(NODE_WIDTH)), a.x)

\* C7: the children added one after another under the same parent, each
\* placed by getNewNodePosition, have pairwise disjoint or touching
\* horizontal extents.
SiblingsNeverOverlap ==
    \A i \in 1..Len(nodes), j \in 1..Len(nodes) :
        (/\ i < j /\ nodes[i].id # nodes[j].id
         /\ nodes[i].parentId # NoParent /\ nodes[i].parentId = nodes[j].parentId)
            => ExtentsDisjoint(nodes[i], nodes[j])

\* the four anchors of a node of the given height
AnchorSet(n, h) ==
    { Point(Add(n.x, R(192)), n.y), Point(Add(n.x, R(192)), Add(n.y, R(h))),
      Point(n.x, Add(n.y, Frac(h, 2))), Point(Add(n.x, R(384)), Add(n.y, Frac(h, 2))) }

\* C9: a connector drawn between two measured nodes joins an anchor of the
\* parent to an anchor of the child, and no other of the 16 anchor pairs is
\* closer; parent (0,0) and child (0,300), both 100 high, are joined from
\* (192,100) to (192,300).
SynapseAnchorsMinimal ==
    \A k \in 1..Len(synapses) :
        LET s == synapses[k]
        IN  (s.fromEl # Unmeasured /\ s.toEl # Unmeasured) =>
              /\ s.start \in AnchorSet(s.from, s.fromEl[1])
              /\ s.end \in AnchorSet(s.to, s.toEl[1])
              /\ \A a \in AnchorSet(s.from, s.fromEl[1]), b \in AnchorSet(s.to, s.toEl[1]) :
                    Le(Distance2(s.start, s.end), Distance2(a, b))
              /\ ( /\ s.from.x = R(0) /\ s.from.y = R(0) /\ s.fromEl = Measured(100)
                   /\ s.to.x = R(0) /\ s.to.y = R(300) /\ s.toEl = Measured(100) )
                    => /\ s.start = Point(R(192), R(100))
                       /\ s.end = Point(R(192), R(300))

\* C9 witness: the child 300 below its parent, both measured 100 high, is
\* connected from the parent's bottom to its own top
ChildBelowConnected ==
    \E k \in 1..Len(synapses) :
        /\ synapses[k].fromEl = Measured(100) /\ synapses[k].toEl = Measured(100)
        /\ synapses[k].to.y = R(300) /\ synapses[k].to.x = R(0)
        /\ synapses[k].start = Point(R(192), R(100))
        /\ synapses[k].end = Point(R(192), R(300))

NodeReleaseTypes == {"nodeUp", "nodeCancel"}

\* C11: the store changes only on the release (pointer-up or
\* pointer-cancel) of a node that is Dragging, that release ends the
\* session, and a move, or a release or ignored press on an Idle node,
\* commits nothing and leaves the node Idle.
DragCommitsOnce ==
    [][/\ (nodes' # nodes) =>
            /\ ev'.type \in NodeReleaseTypes
            /\ drag[ev'.arg].isDragging
       /\ (ev'.type \in NodeReleaseTypes /\ drag[ev'.arg].isDragging) =>
            /\ ev'.branch = "commit"
            /\ ~drag'[ev'.arg].isDragging
       /\ (ev'.type \in NodeReleaseTypes /\ ~drag[ev'.arg].isDragging) =>
            /\ ev'.branch = "idle"
            /\ nodes' = nodes
            /\ drag' = drag
       /\ (ev'.type = "nodeMove") => (nodes' = nodes /\ drag' = drag)
       /\ (ev'.type = "nodeDown" /\ ev'.branch = "ignored") =>
            (nodes' = nodes /\ drag' = drag)]_vars

\* C11 witness: after a committed drag, a second release finds the node
\* Idle and commits nothing
SecondReleaseIgnored ==
    /\ ev.type \in NodeReleaseTypes /\ ev.branch = "idle"
    /\ nodes[FindIndex(nodes, ev.arg)].x # initialNode(viewport).x

\* C12: a pointer-cancel leaves the store and the dragState exactly as a
\* pointer-up with the same coordinates would from the same state, and a
\* pointer-up as a pointer-cancel would; after a cancel of a Dragging node
\* the position is committed and the node is Idle.
CancelActsAsUp ==
    [][/\ (ev'.type = "nodeCancel") =>
            LET up == PointerUpEffect(nodes, drag, ev'.arg, ev'.pos, transform.scale)
            IN  /\ nodes' = up.nodes
                /\ drag' = up.drag
                /\ drag[ev'.arg].isDragging =>
                      /\ ~drag'[ev'.arg].isDragging
                      /\ nodes'[FindIndex(nodes', ev'.arg)].x
                           = Add(drag[ev'.arg].nodeStartX,
                                 Div(Sub(ev'.pos.x, drag[ev'.arg].startX), transform.scale))
                      /\ nodes'[FindIndex(nodes', ev'.arg)].y
                           = Add(drag[ev'.arg].nodeStartY,
                                 Div(Sub(ev'.pos.y, drag[ev'.arg].startY), transform.scale))
       /\ (ev'.type = "nodeUp") =>
            LET cancel == PointerCancelEffect(nodes, drag, ev'.arg, ev'.pos, transform.scale)
            IN  nodes' = cancel.nodes /\ drag' = cancel.drag]_vars

\* C12 witness: a drag ended by pointer-cancel away from its press point has
\* moved the node in the store
DragCancelledCommitted ==
    /\ ev.type = "nodeCancel" /\ ev.branch = "commit"
    /\ ~drag[ev.arg].isDragging
    /\ nodes[FindIndex(nodes, ev.arg)].x # drag[ev.arg].nodeStartX

\* C13: fit-to-screen on an empty collection sets the transform to
\* {x: 0, y: 0, scale: 1} through the branch that computes no bounding
\* box, whatever the previous transform and the viewport.
EmptyFitResets ==
    [][(ev'.type = "fit" /\ Len(nodes) = 0) =>
            /\ ev'.branch = "empty"
            /\ transform' = [x |-> R(0), y |-> R(0), scale |-> R(1)]]_vars

\* C13 witness: an empty canvas in the low window was zoomed and then fitted
EmptyFitAfterZoom ==
    /\ ev.type = "fit" /\ Len(nodes) = 0
    /\ steps > 1
    /\ viewport.h = LowView[2]
    /\ transform.scale = R(1)

\* C14: after a render a node has a connector exactly when it has a
\* parentId and a node with that id is in the collection; every connector
\* starts at that parent, and a dangling parentId only leaves the node
\* without a connector.
SynapseIffParentPresent ==
    (ev.type = "render") =>
        /\ \A i \in 1..Len(nodes) :
              (\E k \in 1..Len(synapses) : synapses[k].to = nodes[i])
                <=> (/\ nodes[i].parentId # NoParent
                     /\ \E j \in 1..Len(nodes) : nodes[j].id = nodes[i].parentId)
        /\ \A k \in 1..Len(synapses) :
              /\ synapses[k].from.id = synapses[k].to.parentId
              /\ \E j \in 1..Len(nodes) : nodes[j] = synapses[k].from
        /\ Len(synapses) =
              Cardinality({i \in 1..Len(nodes) :
                              /\ nodes[i].parentId # NoParent
                              /\ \E j \in 1..Len(nodes) : nodes[j].id = nodes[i].parentId})

\* C14 witness: a render of a collection with a linked child and a node of
\* dangling parentId has drawn the one connector
DanglingParentSkipped ==
    /\ ev.type = "render"
    /\ \E i \in 1..Len(nodes) :
          /\ nodes[i].parentId # NoParent
          /\ \A j \in 1..Len(nodes) : nodes[j].id # nodes[i].parentId
    /\ Len(synapses) = 1

\* C15: no two nodes of the collection share an id.
NodeIdsUnique ==
    \A i \in 1..Len(nodes), j \in 1..Len(nodes) :
        (i # j) => nodes[i].id # nodes[j].id

NodeEventTypes == {"nodeDown", "nodeMove", "nodeUp", "nodeCancel"}

\* C16: a press on a node does not enter the canvas pointer set, no event
\* delivered to a node changes the viewport transform or the pointer set,
\* and a pointer captured by a node is never in the pointer set, also
\* while another pointer is active on the background.
NodePointerNotCanvasGesture ==
    [][/\ (ev'.type \in NodeEventTypes) =>
            /\ transform' = transform
            /\ pointers' = pointers
            /\ ~MapHas(pointers', ev'.id)
       /\ \A p \in PointerIds :
            (capture'[p] \notin {NoCapture, CanvasCapture}) => ~MapHas(pointers', p)]_vars

\* C16 witness: a node is being dragged by one pointer while another
\* pointer is active on the background
DragMoveWhileBackgroundHeld ==
    /\ ev.type = "nodeMove" /\ ev.branch = "visual"
    /\ Len(pointers) = 1
    /\ ~MapHas(pointers, ev.id)
    /\ capture[ev.id] = ev.arg

\* C17: a pointer-move on a Dragging node paints the element at
\* nodeStart + delta / scale and leaves the whole node collection and the
\* dragState unchanged; the stored position of a node changes only on a
\* release.
DragMoveVisualOnly ==
    [][/\ (ev'.type = "nodeMove" /\ drag[ev'.arg].isDragging) =>
            /\ nodes' = nodes
            /\ drag' = drag
            /\ painted'[ev'.arg].x
                  = Add(drag[ev'.arg].nodeStartX,
                        Div(Sub(ev'.pos.x, drag[ev'.arg].startX), transform.scale))
            /\ painted'[ev'.arg].y
                  = Add(drag[ev'.arg].nodeStartY,
                        Div(Sub(ev'.pos.y, drag[ev'.arg].startY), transform.scale))
       /\ (\E i \in 1..Len(nodes) : nodes'[i].x # nodes[i].x \/ nodes'[i].y # nodes[i].y)
            => ev'.type \in NodeReleaseTypes]_vars

\* C17 witness: a move has painted a Dragging node away from its stored
\* position
DraggedNodePaintedAway ==
    /\ ev.type = "nodeMove" /\ ev.branch = "visual"
    /\ drag[ev.arg].isDragging
    /\ painted[ev.arg].x # nodes[FindIndex(nodes, ev.arg)].x
    /\ nodes[FindIndex(nodes, ev.arg)].x = drag[ev.arg].nodeStartX

\* C18: a drag commit keeps the length and order of the collection, leaves
\* every node but the committed one as it was, and changes nothing of the
\* committed node but x and y.
CommitChangesOnlyPosition ==
    [][(ev'.type \in NodeReleaseTypes /\ drag[ev'.arg].isDragging) =>
            LET k == FindIndex(nodes, ev'.arg)
            IN  /\ Len(nodes') = Len(nodes)
                /\ \A i \in 1..Len(nodes) : (i # k) => nodes'[i] = nodes[i]
                /\ DOMAIN nodes'[k] = DOMAIN nodes[k]
                /\ \A f \in DOMAIN nodes[k] \ {"x", "y"} : nodes'[k][f] = nodes[k][f]
                /\ [i \in 1..Len(nodes') |-> nodes'[i].id]
                     = [i \in 1..Len(nodes) |-> nodes[i].id]]_vars

\* C18 witness: the child of a two-node scene was dragged to a new place
ChildDragCommitted ==
    /\ ev.type = "nodeUp" /\ ev.branch = "commit"
    /\ Len(nodes) = 2
    /\ ev.arg = nodes[2].id
    /\ nodes[2].x # drag[ev.arg].nodeStartX
    /\ nodes[2].triggeredByAction = "DEEPEN_THOUGHT"

\* C19: a move with exactly one active pointer records the new position
\* and shifts the translation by (new position - the position recorded for
\* that pointer before), leaving the scale; the offset between the
\* translation and the pointer is therefore kept by every such move, also
\* by the first one after the other finger of a pinch has lifted.
PanFollowsPointer ==
    [][(ev'.type = "move" /\ Len(pointers) = 1 /\ MapHas(pointers, ev'.id)) =>
            /\ ev'.branch = "pan"
            /\ pointers' = << [id |-> ev'.id, pos |-> ev'.pos] >>
            /\ transform'.scale = transform.scale
            /\ transform'.x = Add(transform.x, Sub(ev'.pos.x, pointers[1].pos.x))
            /\ transform'.y = Add(transform.y, Sub(ev'.pos.y, pointers[1].pos.y))
            /\ Sub(transform'.x, pointers'[1].pos.x) = Sub(transform.x, pointers[1].pos.x)
            /\ Sub(transform'.y, pointers'[1].pos.y) = Sub(transform.y, pointers[1].pos.y)]_vars

\* C19 witness: after a pinch and the lift of one finger, the remaining
\* finger has panned the canvas
PanAfterPinchRelease ==
    /\ ev.type = "move" /\ ev.branch = "pan"
    /\ Len(pointers) = 1
    /\ transform.scale # InitialScale
    /\ steps = 3

\* C20: a move of a tracked pointer with three or more active pointers
\* applies the pinch update computed from the two most recently tracked
\* pointers, before and after the move.
ManyPointersStillPinch ==
    [][(/\ ev'.type = "move"
        /\ MapHas(pointers, ev'.id)
        /\ Len(pointers) >= 3
        /\ Len(pointers') = Len(pointers)) =>
            LET n == Len(pointers)
                oldA == pointers[n - 1].pos
                oldB == pointers[n].pos
                newA == pointers'[n - 1].pos
                newB == pointers'[n].pos
                oldMidpoint == Midpoint(oldA, oldB)
                newMidpoint == Midpoint(newA, newB)
            IN  (Distance(oldA, oldB) # R(0)) =>
                    transform' = PinchUpdate(transform, newMidpoint,
                                     Sub(newMidpoint.x, oldMidpoint.x),
                                     Sub(newMidpoint.y, oldMidpoint.y),
                                     Div(Distance(newA, newB), Distance(oldA, oldB)))]_vars

\* the ids of a pointer map
TrackedIds(ps) == {ps[i].id : i \in 1..Len(ps)}

\* the pointers that were pressed on the background and not yet released
HeldOnBackground == {p \in PointerIds : capture[p] = CanvasCapture}

\* C21: the pointer set holds exactly the pointers held on the background:
\* a background press adds its id, an up or cancel removes that id and
\* leaves every other entry, so the set is empty once all are released;
\* a move of an id outside the set changes neither the set nor the transform.
PointerSetTracksHeld ==
    [][/\ TrackedIds(pointers') = {p \in PointerIds : capture'[p] = CanvasCapture}
       /\ (ev'.type = "down") =>
             /\ TrackedIds(pointers') = TrackedIds(pointers) \cup {ev'.id}
             /\ MapGet(pointers', ev'.id) = ev'.pos
       /\ (ev'.type \in {"up", "cancel"}) =>
             /\ TrackedIds(pointers') = TrackedIds(pointers) \ {ev'.id}
             /\ \A p \in TrackedIds(pointers') :
                    MapGet(pointers', p) = MapGet(pointers, p)
       /\ (ev'.type = "move" /\ ~MapHas(pointers, ev'.id)) =>
             /\ pointers' = pointers
             /\ transform' = transform
       /\ (HeldOnBackground' = {}) => (pointers' = <<>>)]_vars

\* C21 witness: every pointer held in the gesture has been released
AllPointersReleased ==
    /\ ev.type \in {"up", "cancel"}
    /\ steps = 3
    /\ pointers = <<>>
    /\ HeldOnBackground = {}

\* the centre of the viewport
ViewportCentre == [x |-> Div(R(viewport.w), R(2)), y |-> Div(R(viewport.h), R(2))]

\* C22: fit-to-screen on a collection of exactly one node sets the scale to
\* 1 and puts the centre of that node at the centre of the viewport.
SingleNodeFitUnitScale ==
    (ev.type = "fit" /\ Len(nodes) = 1) =>
        /\ transform.scale = R(1)
        /\ ScreenOf(Add(nodes[1].x, Div(R(NODE_WIDTH), R(2))),
                    Add(nodes[1].y, Div(HeightOf(heights, nodes[1].id), R(2))),
                    transform) = ViewportCentre

\* C23: in the normal case fit-to-screen sets the scale to
\* min(scaleX, scaleY, 1.5) and maps the centre of the bounding box to the
\* centre of the viewport, for every collection with a non-degenerate box.
FitCentresBox ==
    (ev.type = "fit" /\ FitBranch(nodes, heights) = "normal") =>
        LET b == Bounds(nodes, heights)
            scaleX == Div(R(viewport.w - 2 * PADDING), Sub(b.maxX, b.minX))
            scaleY == Div(R(viewport.h - 2 * PADDING), Sub(b.maxY, b.minY))
            least == IF Le(scaleX, scaleY) THEN scaleX ELSE scaleY
        IN  /\ transform.scale = (IF Le(least, FitMaxScale) THEN least ELSE FitMaxScale)
            /\ ScreenOf(Div(Add(b.minX, b.maxX), R(2)),
                        Div(Add(b.minY, b.maxY), R(2)), transform) = ViewportCentre

\* C23 witness: a fit of a box higher than the viewport, after a zoom
FitOfTallBox ==
    /\ ev.type = "fit" /\ FitBranch(nodes, heights) = "normal"
    /\ steps > 1
    /\ Lt(R(10 * viewport.h), Sub(Bounds(nodes, heights).maxY, Bounds(nodes, heights).minY))
    /\ Lt(transform.scale, R(1))

\* C24: the zoom-in button sets the scale to min(scale * 1.2, 3), the
\* zoom-out button to max(scale * 0.8, 0.1), and both leave the translation
\* as it was.
ButtonZoomOnlyScales ==
    [][/\ (ev'.type = "zoomIn") =>
            LET target == Mul(transform.scale, Frac(6, 5))
            IN  /\ transform'.scale = (IF Le(target, R(3)) THEN target ELSE R(3))
                /\ transform'.x = transform.x /\ transform'.y = transform.y
       /\ (ev'.type = "zoomOut") =>
            LET target == Mul(transform.scale, Frac(4, 5))
            IN  /\ transform'.scale = (IF Le(Frac(1, 10), target) THEN target ELSE Frac(1, 10))
                /\ transform'.x = transform.x /\ transform'.y = transform.y]_vars

\* C24 witness: a zoom-out at the lower limit, after a wheel zoom away from
\* the origin had moved the translation
ZoomOutAtMinAfterWheel ==
    /\ ev.type = "zoomOut"
    /\ transform.scale = MinScale
    /\ transform.x # Div(R(viewport.w), R(4))

\* a step of the prompt flow that placed a LOADING child: the child is the
\* last node and its process the last pending continuation
LoadingChildPlaced ==
    /\ Len(nodes') > Len(nodes)
    /\ nodes'[Len(nodes')].type = "LOADING"
    /\ Len(procs') > 0
    /\ procs'[Len(procs')].kind = "ai"
    /\ procs'[Len(procs')].loadingNodeId = nodes'[Len(nodes')].id

\* the number of nodes that had the given parentId before the step
ChildrenBefore(id) == Cardinality({i \in 1..Len(nodes) : nodes[i].parentId = id})

\* parent.x + 192 - groupWidth/2 + n * (384 + 40) for a group of n nodes and
\* the given number of gaps
SlotX(px, n, gaps) ==
    Add(Sub(Add(px, R(192)), Frac(n * 384 + gaps * 40, 2)), R(n * (384 + 40)))

\* C25 as stated: a new child of a parent with n >= 0 children is placed at
\* y = parent.y + 300 and x = parent.x + 192 - groupWidth/2 + n * 424 with
\* groupWidth = n * 384 + (n - 1) * 40.
ChildPlacedBySpecFormula ==
    [][LoadingChildPlaced =>
          LET child == nodes'[Len(nodes')]
              parent == procs'[Len(procs')].node
              n == ChildrenBefore(parent.id)
          IN  /\ child.parentId = parent.id
              /\ child.y = Add(parent.y, R(300))
              /\ child.x = SlotX(parent.x, n, n - 1)]_vars

\* C25 amended: the same with groupWidth = n * 384 + max(0, n - 1) * 40, so
\* that the first child (n = 0) is placed at x = parent.x + 192.
ChildPlacedWithGuardedGap ==
    [][LoadingChildPlaced =>
          LET child == nodes'[Len(nodes')]
              parent == procs'[Len(procs')].node
              n == ChildrenBefore(parent.id)
          IN  /\ child.parentId = parent.id
              /\ child.y = Add(parent.y, R(300))
              /\ child.x = SlotX(parent.x, n, IF n > 1 THEN n - 1 ELSE 0)
              /\ (n = 0) => child.x = Add(parent.x, R(192))]_vars

\* C25 witness: a third child is being loaded under a prompt
ThirdChildPlaced ==
    /\ Len(nodes) >= 4
    /\ nodes[Len(nodes)].type = "LOADING"
    /\ Cardinality({i \in 1..Len(nodes) :
                       nodes[i].parentId = nodes[Len(nodes)].parentId}) = 3
    /\ nodes[Len(nodes)].x
         = SlotX(nodes[2].x, 2, 1)
    /\ nodes[Len(nodes)].parentId = nodes[2].id

\* C26: a connector whose parent element or child element is missing starts
\* at the raw (x, y) of the parent and ends at the raw (x, y) of the child;
\* calculateSynapsePoints returns these for every pair of nodes of the
\* collection whenever one of the two elements is missing.
SynapseFallsBackToRaw ==
    /\ (ev.type = "render") =>
          \A k \in 1..Len(synapses) :
              (synapses[k].fromEl = Unmeasured \/ synapses[k].toEl = Unmeasured) =>
                  /\ synapses[k].start = [x |-> synapses[k].from.x, y |-> synapses[k].from.y]
                  /\ synapses[k].end = [x |-> synapses[k].to.x, y |-> synapses[k].to.y]
    /\ \A i \in 1..Len(nodes), j \in 1..Len(nodes) :
          \A a \in {Unmeasured, Measured(100)}, b \in {Unmeasured, Measured(250)} :
              (a = Unmeasured \/ b = Unmeasured) =>
                  calculateSynapsePoints(nodes[i], nodes[j], a, b)
                    = [start |-> [x |-> nodes[i].x, y |-> nodes[i].y],
                       end |-> [x |-> nodes[j].x, y |-> nodes[j].y]]

\* C26 witness: a connector was drawn from a parent whose element is cached
\* to a child whose element is not
ConnectorToUncachedChild ==
    /\ ev.type = "render"
    /\ Len(synapses) = 1
    /\ synapses[1].fromEl # Unmeasured
    /\ synapses[1].toEl = Unmeasured
    /\ synapses[1].end # synapses[1].start

\* C27: while a node is dragging, a press, move, release or cancel on that
\* node by a pointer other than the one holding the drag leaves the
\* recorded start, the session and the stored positions as they are.
DragOwnedByStartingPointer ==
    [][(/\ ev'.type \in NodeEventTypes
        /\ ev'.arg \in DOMAIN drag
        /\ drag[ev'.arg].isDragging
        /\ capture[ev'.id] # ev'.arg) =>
            /\ drag'[ev'.arg] = drag[ev'.arg]
            /\ nodes' = nodes]_vars

\* the pending continuations of runAIProcess: it awaits openSelectKey or
\* processRequest
InFlight == {i \in 1..Len(procs) : procs[i].kind \in {"key", "ai"}}

\* C28: whenever a runAIProcess has started and not settled, isLoading is
\* true, also when several of them overlap and one has finished.
LoadingWhileInFlight == (InFlight # {}) => isLoading

\* C29: when the processRequest of a process settles, its LOADING node is
\* in the collection, it alone is removed, and one node that is not a
\* LOADING node is added with the parentId and the (x, y) of the removed
\* node; whenever no process is in flight no LOADING node is left.
LoadingNodeReplaced ==
    [][/\ (ev'.type \in {"responded", "failed"}) =>
            LET held == {i \in 1..Len(nodes) : nodes[i].id = ev'.arg}
            IN  /\ Cardinality(held) = 1
                /\ LET k == CHOOSE i \in held : TRUE
                       new == nodes'[Len(nodes')]
                   IN  /\ nodes[k].type = "LOADING"
                       /\ Len(nodes') = Len(nodes)
                       /\ \A i \in 1..(Len(nodes) - 1) :
                             nodes'[i] = IF i < k THEN nodes[i] ELSE nodes[i + 1]
                       /\ new.type # "LOADING"
                       /\ new.parentId = nodes[k].parentId
                       /\ new.x = nodes[k].x
                       /\ new.y = nodes[k].y
       /\ ({i \in 1..Len(procs') : procs'[i].kind \in {"key", "ai"}} = {}) =>
            \A i \in 1..Len(nodes') : nodes'[i].type # "LOADING"]_vars

\* C30: every node with a parentId has a node of that id in the collection,
\* only LOADING nodes are removed, and no node is created as the child of a
\* LOADING node.
NoDanglingParent ==
    /\ [](\A i \in 1..Len(nodes) :
            (nodes[i].parentId # NoParent) =>
                \E j \in 1..Len(nodes) :
                    /\ nodes[j].id = nodes[i].parentId
                    /\ nodes[j].type # "LOADING")
    /\ [][\A i \in 1..Len(nodes) :
              (\A j \in 1..Len(nodes') : nodes'[j].id # nodes[i].id)
                  => nodes[i].type = "LOADING"]_vars

\* C30 witness: a response has replaced the LOADING node of an action on a
\* node that was dragged while the process was loading
ChildOfDraggedParentAdded ==
    /\ ev.type = "responded"
    /\ Len(nodes) >= 3
    /\ nodes[Len(nodes)].parentId = nodes[2].id
    /\ nodes[2].x # Add(nodes[1].x, R(NODE_WIDTH + 100))
    /\ \A i \in 1..Len(nodes) : nodes[i].type # "LOADING"

\* the root prompts of the collection, in the order of their creation
RootPrompts ==
    SelectSeq(nodes, LAMBDA n : n.type = "PROMPT" /\ n.parentId = NoParent)

\* C31: without a drag in between, two root prompts created one after the
\* other lie at different (x, y), the later one to the right of the
\* earlier one.
RootPromptsNeverStack ==
    \A i \in 1..Len(RootPrompts), j \in 1..Len(RootPrompts) :
        (i < j) =>
            /\ <<RootPrompts[i].x, RootPrompts[i].y>> # <<RootPrompts[j].x, RootPrompts[j].y>>
            /\ Lt(RootPrompts[i].x, RootPrompts[j].x)

\* ids that no node of the prompt flow carries
AbsentIds == {<<"loading", 0>>, <<"gone", 0>>}

\* C32: an update for an id that is not in the collection changes nothing:
\* a video progress update for a LOADING node that is gone leaves the
\* nodes, isLoading and apiKeySelected as they were, and updateNode and
\* handleNodeDrag return the collection they were given.
UpdateOfAbsentIdIgnored ==
    /\ [](\A id \in AbsentIds :
            /\ updateNode(nodes, [id |-> id, content |-> "video"]) = nodes
            /\ handleNodeDrag(nodes, id, R(60), R(80)) = nodes)
    /\ [][(/\ ev'.type = "progress"
           /\ \A i \in 1..Len(nodes) : nodes[i].id # ev'.arg) =>
                /\ nodes' = nodes
                /\ isLoading' = isLoading
                /\ apiKeySelected' = apiKeySelected]_vars

\* C32 witness: a video process reported progress after its LOADING node
\* had been removed
ProgressAfterRemoval ==
    /\ ev.type = "progress"
    /\ \A i \in 1..Len(nodes) : nodes[i].id # ev.arg
    /\ \E i \in 1..Len(procs) : procs[i].kind = "ai" /\ procs[i].loadingNodeId = ev.arg

\* the events whose handler calls runAIProcess from its start
RunEventTypes == {"submit", "loadend", "action", "fetched"}

\* the number of nodes of a type, and of continuations of a kind
CountType(ns, type) == Cardinality({i \in 1..Len(ns) : ns[i].type = type})
CountKind(ps, kind) == Cardinality({i \in 1..Len(ps) : ps[i].kind = kind})

\* a step in which runAIProcess refused a video request: it was called
\* for a video with no key selected and no key selector, or openSelectKey
\* rejected
VideoRefused ==
    \/ /\ ev'.type \in RunEventTypes /\ ev'.branch = "run"
       /\ (ev'.req.action = "GENERATE_VIDEO" \/ ev'.req.content = "video")
       /\ apiKeySelected # "true"
       /\ ~aistudio
    \/ ev'.type = "keyRejected"

\* C33: a refused video request adds exactly one ERROR node, as a child of
\* the prompt node, adds no LOADING node, starts no processRequest, and
\* leaves isLoading false.
RefusedVideoAddsOneError ==
    [][VideoRefused =>
          LET kept == IF ev'.type \in {"submit", "loadend"}
                      THEN Len(nodes) + 1 ELSE Len(nodes)
              last == nodes'[Len(nodes')]
          IN  /\ Len(nodes') = kept + 1
              /\ \A i \in 1..Len(nodes) : nodes'[i] = nodes[i]
              /\ last.type = "ERROR"
              /\ last.parentId = ev'.arg
              /\ CountType(nodes', "ERROR") = CountType(nodes, "ERROR") + 1
              /\ CountType(nodes', "LOADING") = CountType(nodes, "LOADING")
              /\ CountKind(procs', "ai") = CountKind(procs, "ai")
              /\ CountKind(procs', "key") <= CountKind(procs, "key")
              /\ isLoading' = FALSE]_vars

\* C33 witness: without a key selector, a video request made after the key
\* had been found invalid was refused
VideoRefusedWithoutSelector ==
    /\ ev.type \in RunEventTypes /\ ev.branch = "run"
    /\ (ev.req.action = "GENERATE_VIDEO" \/ ev.req.content = "video")
    /\ ~aistudio
    /\ apiKeySelected = "false"
    /\ nodes[Len(nodes)].type = "ERROR"
    /\ nodes[Len(nodes)].parentId = ev.arg
    /\ ~isLoading

====
